---------------------------- MODULE Spec2Model ----------------------------
(***************************************************************************)
(* Model of the chat-to-game-input listener (src/unnamed/part_000, the     *)
(* TypeScript listener that follows the Lua bridge in that file).          *)
(*                                                                         *)
(* The listener runs on one event loop.  Every action below is one run of  *)
(* the event loop from a wake-up to the next suspension point (an await):  *)
(* the ingest of one chat record, the firing of a repeat timer, the        *)
(* settling of the executor call, the end of the inter-command delay, the  *)
(* settling of an identity lookup, and the overlay's connect and abort     *)
(* handlers.  Text is a sequence of one-character strings so that          *)
(* trimming, lowercasing, the repeat-suffix pattern and splitting are      *)
(* computed, not assumed.                                                  *)
(***************************************************************************)
EXTENDS Integers, Sequences, FiniteSets, TLC

\* ------------------------------------------------------------------------
\* Program constants
\* ------------------------------------------------------------------------
KEYPRESS_DURATION_MS == 80
LONG_KEYPRESS_DURATION_MS == KEYPRESS_DURATION_MS * 3
MAX_CHAT_MESSAGES == 35
MAX_QUEUE_ITEMS == 40
IDENTITY_CACHE_TTL_MS == 15 * 60 * 1000
CHATTER_WINDOW_MS == 10 * 60 * 1000
MIN_UNIQUE_CHATTERS_FOR_NO_SPAM == 3
MAX_COMMAND_SPAM_REPEAT == 100

SUPPORTED_COMMANDS ==
  { <<"u","p">>, <<"d","o","w","n">>, <<"l","e","f","t">>,
    <<"r","i","g","h","t">>, <<"a">>, <<"b">>,
    <<"s","t","a","r","t">>, <<"s","e","l","e","c","t">>, <<"l">>, <<"r">> }

\* ------------------------------------------------------------------------
\* Characters and strings
\* ------------------------------------------------------------------------
LineTerminators == {"\n", "\r"}
Whitespace == {" ", "\t"} \cup LineTerminators
DigitChars == <<"0","1","2","3","4","5","6","7","8","9">>
IsDigit(c) == \E i \in 1..10 : DigitChars[i] = c
DigitVal(c) == (CHOOSE i \in 1..10 : DigitChars[i] = c) - 1

UpperCase == <<"A","B","D","E","F","G","H","I","L","N","O","P","R","S","T","U","W","X">>
LowerCase == <<"a","b","d","e","f","g","h","i","l","n","o","p","r","s","t","u","w","x">>
ToLowerChar(c) ==
  IF \E i \in 1..Len(UpperCase) : UpperCase[i] = c
  THEN LowerCase[CHOOSE i \in 1..Len(UpperCase) : UpperCase[i] = c]
  ELSE c

ToLowerCase(s) == [i \in 1..Len(s) |-> ToLowerChar(s[i])]

RECURSIVE TrimStart(_)
TrimStart(s) ==
  IF s # <<>> /\ Head(s) \in Whitespace THEN TrimStart(Tail(s)) ELSE s

RECURSIVE TrimEnd(_)
TrimEnd(s) ==
  IF s # <<>> /\ s[Len(s)] \in Whitespace
  THEN TrimEnd(SubSeq(s, 1, Len(s) - 1))
  ELSE s

Trim(s) == TrimEnd(TrimStart(s))

\* Mutant: pieces after the second are dropped.
RECURSIVE SplitPlusAll(_, _)
SplitPlusAll(s, piece) ==
  IF s = <<>> THEN << piece >>
  ELSE IF Head(s) = "+" THEN << piece >> \o SplitPlusAll(Tail(s), <<>>)
  ELSE SplitPlusAll(Tail(s), Append(piece, Head(s)))

SplitPlusKeepTwo(s, piece) ==
  LET all == SplitPlusAll(s, piece) IN
  IF Len(all) > 2 THEN SubSeq(all, 1, 2) ELSE all

\* s.split("+"): the pieces between the separators, empty pieces kept.
RECURSIVE SplitPlus(_, _)
SplitPlus(s, piece) ==
  IF s = <<>> THEN << piece >>
  ELSE IF Head(s) = "+" THEN << piece >> \o SplitPlus(Tail(s), <<>>)
  ELSE SplitPlus(Tail(s), Append(piece, Head(s)))

\* Mutant: the buttons are joined without the separator.
RECURSIVE JoinBare(_)
JoinBare(parts) ==
  IF Len(parts) = 0 THEN <<>> ELSE parts[1] \o JoinBare(Tail(parts))

\* Mutant: the buttons are joined by a blank.
RECURSIVE JoinBlank(_)
JoinBlank(parts) ==
  IF Len(parts) = 0 THEN <<>>
  ELSE IF Len(parts) = 1 THEN parts[1]
  ELSE parts[1] \o <<" ">> \o JoinBlank(Tail(parts))

RECURSIVE JoinPlus(_)
JoinPlus(parts) ==
  IF Len(parts) = 0 THEN <<>>
  ELSE IF Len(parts) = 1 THEN parts[1]
  ELSE parts[1] \o <<"+">> \o JoinPlus(Tail(parts))

\* Number.parseInt(digits, 10) on a non-empty string of decimal digits.
RECURSIVE ParseInt(_)
ParseInt(ds) ==
  IF ds = <<>> THEN 0
  ELSE ParseInt(SubSeq(ds, 1, Len(ds) - 1)) * 10 + DigitVal(ds[Len(ds)])

\* ------------------------------------------------------------------------
\* Command parser
\* ------------------------------------------------------------------------
Null == [ok |-> FALSE]

normalizeCommand(raw) == ToLowerCase(Trim(raw))

\* The ends i of group 1 for which /^(.+?)\s+x(\d+)$/ matches s: s[1..i] has no
\* line terminator, then one or more whitespace, then "x", then digits to the end.
SpamMatchEnds(s) ==
  { i \in 1..Len(s) :
      /\ \A k \in 1..i : s[k] \notin LineTerminators
      /\ \E j \in (i + 2)..(Len(s) - 1) :
           /\ \A k \in (i + 1)..(j - 1) : s[k] \in Whitespace
           /\ s[j] = "x"
           /\ \A k \in (j + 1)..Len(s) : IsDigit(s[k]) }

\* The lazy group takes the shortest prefix that lets the rest match.
SpamMatchBase(s) ==
  SubSeq(s, 1, CHOOSE i \in SpamMatchEnds(s) : \A k \in SpamMatchEnds(s) : i <= k)

SpamMatchRepeat(s) ==
  LET j == CHOOSE k \in 1..Len(s) :
             s[k] = "x" /\ k < Len(s) /\ \A m \in (k + 1)..Len(s) : IsDigit(s[m])
  IN  SubSeq(s, j + 1, Len(s))

\* Mutant: a repeat count of 1 passes.
RepeatCountFromOne(repeatCount) ==
  ~(repeatCount < 1 \/ repeatCount > MAX_COMMAND_SPAM_REPEAT)

\* The range check on the repeat count (Number.parseInt of digits is always
\* an integer).
RepeatCountValid(repeatCount) ==
  ~(repeatCount < 2 \/ repeatCount > MAX_COMMAND_SPAM_REPEAT)

\* Mutant: the base is parsed with the options of the outer call.
BaseInheritsAllow(allowCommandSpam) == allowCommandSpam

\* The options of the inner call: { allowCommandSpam: false }.
BaseAllowCommandSpam(allowCommandSpam) == FALSE

RECURSIVE parseCommand(_, _)
parseCommand(raw, allowCommandSpam) ==
  LET normalizedRaw == normalizeCommand(raw) IN
  IF Len(normalizedRaw) = 0 THEN Null
  ELSE IF SpamMatchEnds(normalizedRaw) # {} THEN
    IF ~allowCommandSpam THEN Null
    ELSE
      LET repeatCount == ParseInt(SpamMatchRepeat(normalizedRaw)) IN
      IF ~RepeatCountValid(repeatCount) THEN Null
      ELSE
        LET baseCommand == parseCommand(SpamMatchBase(normalizedRaw),
                                        BaseAllowCommandSpam(allowCommandSpam)) IN
        IF ~baseCommand.ok THEN Null
        ELSE [ok |-> TRUE,
              buttons |-> baseCommand.buttons,
              durationMs |-> baseCommand.durationMs,
              normalized |-> baseCommand.normalized,
              repeatCount |-> repeatCount]
  ELSE
    LET isExtendedHold == normalizedRaw[Len(normalizedRaw)] = "-"
        base == IF isExtendedHold
                THEN Trim(SubSeq(normalizedRaw, 1, Len(normalizedRaw) - 1))
                ELSE normalizedRaw
        parts == SplitPlus(base, <<>>)
        buttons == [i \in 1..Len(parts) |-> Trim(parts[i])]
    IN
    IF Len(base) = 0 THEN Null
    ELSE IF Len(buttons) = 0 \/ Len(buttons) > 2 THEN Null
    ELSE IF \E i \in 1..Len(buttons) :
              Len(buttons[i]) = 0 \/ buttons[i] \notin SUPPORTED_COMMANDS
    THEN Null
    ELSE [ok |-> TRUE,
          buttons |-> buttons,
          durationMs |-> IF isExtendedHold THEN LONG_KEYPRESS_DURATION_MS
                         ELSE KEYPRESS_DURATION_MS,
          normalized |-> JoinPlus(buttons) \o (IF isExtendedHold THEN <<"-">> ELSE <<>>),
          repeatCount |-> 1]

\* ------------------------------------------------------------------------
\* Values
\* ------------------------------------------------------------------------
Undefined == "undefined"
NoId == 0

\* Participant ids.  Each is at most 18 characters long, the case in which
\* shortenDid returns its argument unchanged.
Dids == {"d1", "d2", "d3"}
shortenDid(did) == did

\* formatHandle: one leading "@" is dropped if present, then "@" is prefixed.
formatHandle(handle) ==
  CASE handle = "alice.test" -> "@alice.test"
    [] handle = "@alice.test" -> "@alice.test"
    [] handle = "al.example" -> "@al.example"

\* A chat record's identity-bearing fields (absent ones are Undefined).
NoFields == [user |-> Undefined, handle |-> Undefined, avatarUrl |-> Undefined]

readUser(record, did) ==
  IF record.user # Undefined THEN record.user
  ELSE IF record.handle # Undefined THEN record.handle
  ELSE shortenDid(did)

NoIdentity == [did |-> Undefined, handle |-> Undefined,
               displayName |-> Undefined, avatarUrl |-> Undefined]

localIdentityFromRecord(did, record) ==
  IF record.handle = Undefined /\ record.user = Undefined /\ record.avatarUrl = Undefined
  THEN NoIdentity
  ELSE [did |-> did, handle |-> record.handle,
        displayName |-> record.user, avatarUrl |-> record.avatarUrl]

userLabelForIdentity(identity, fallbackDid) ==
  IF identity.displayName # Undefined THEN identity.displayName
  ELSE IF identity.handle # Undefined THEN formatHandle(identity.handle)
  ELSE shortenDid(fallbackDid)

queueLabelForIdentity(identity, fallbackDid) ==
  IF identity.handle # Undefined THEN formatHandle(identity.handle)
  ELSE shortenDid(fallbackDid)

\* An identity cache slot: no entry, or an identity with its expiry.
NoEntry == [identity |-> NoIdentity, expiresAt |-> 0]

\* ------------------------------------------------------------------------
\* State
\* ------------------------------------------------------------------------
VARIABLES
  now,                     \* Date.now()
  chatMessages,            \* sequence of ChatMessage
  commandQueue,            \* sequence of QueueItem
  identityCache,           \* did -> cache slot
  pendingIdentityLookups,  \* dids that have an in-flight marker
  chatterActivity,         \* sequence of [did, createdAt]
  activeCommandId,         \* id of the item being executed, or NoId
  processingQueue,         \* the consumer's reentrancy flag
  overlayClients,          \* subscribed stream controllers
  cancelled,               \* controllers whose enqueue throws
  pc,                      \* consumer position: "idle", "dispatch" or "sleep"
  next,                    \* id of the item the suspended consumer holds
  repeatTimers,            \* sleeping repeat loops, in the order they wake
  inflight,                \* did -> external resolutions started, not settled
  started,                 \* did -> external resolutions started so far
  unresolved,              \* dids whose latest resolution gave no identity, not asked again yet
  pushed,                  \* broadcasts of the latest step: snapshot, receivers
                           \* and the listeners whose enqueue threw
  dispatched,              \* ids handed to the executor, in order
  recorded,                \* every activity entry ever recorded
  last,                    \* the latest step and what it decided
  nItem, nMsg,             \* items and messages created so far
  nIngest, nTick,          \* steps counted against the bounds
  sockets                  \* the calls of the socket executor, in call order

vars == << now, chatMessages, commandQueue, identityCache, pendingIdentityLookups,
           chatterActivity, activeCommandId, processingQueue, overlayClients,
           cancelled, pc, next, repeatTimers, inflight, started, unresolved, pushed,
           dispatched, recorded, last, nItem, nMsg, nIngest, nTick, sockets >>

\* The state as one record, so that a handler is a composition of its calls.
Cur ==
  [ now |-> now, chatMessages |-> chatMessages, commandQueue |-> commandQueue,
    identityCache |-> identityCache,
    pendingIdentityLookups |-> pendingIdentityLookups,
    chatterActivity |-> chatterActivity, activeCommandId |-> activeCommandId,
    processingQueue |-> processingQueue, overlayClients |-> overlayClients,
    cancelled |-> cancelled, pc |-> pc, next |-> next,
    repeatTimers |-> repeatTimers, inflight |-> inflight, started |-> started,
    unresolved |-> unresolved,
    pushed |-> pushed, dispatched |-> dispatched, recorded |-> recorded,
    last |-> last, nItem |-> nItem, nMsg |-> nMsg,
    nIngest |-> nIngest, nTick |-> nTick, sockets |-> sockets ]

Becomes(s) ==
  /\ now' = s.now
  /\ chatMessages' = s.chatMessages
  /\ commandQueue' = s.commandQueue
  /\ identityCache' = s.identityCache
  /\ pendingIdentityLookups' = s.pendingIdentityLookups
  /\ chatterActivity' = s.chatterActivity
  /\ activeCommandId' = s.activeCommandId
  /\ processingQueue' = s.processingQueue
  /\ overlayClients' = s.overlayClients
  /\ cancelled' = s.cancelled
  /\ pc' = s.pc
  /\ next' = s.next
  /\ repeatTimers' = s.repeatTimers
  /\ inflight' = s.inflight
  /\ started' = s.started
  /\ unresolved' = s.unresolved
  /\ pushed' = s.pushed
  /\ dispatched' = s.dispatched
  /\ recorded' = s.recorded
  /\ last' = s.last
  /\ nItem' = s.nItem
  /\ nMsg' = s.nMsg
  /\ nIngest' = s.nIngest
  /\ nTick' = s.nTick
  /\ sockets' = s.sockets

StateIs(s) ==
  /\ now = s.now
  /\ chatMessages = s.chatMessages
  /\ commandQueue = s.commandQueue
  /\ identityCache = s.identityCache
  /\ pendingIdentityLookups = s.pendingIdentityLookups
  /\ chatterActivity = s.chatterActivity
  /\ activeCommandId = s.activeCommandId
  /\ processingQueue = s.processingQueue
  /\ overlayClients = s.overlayClients
  /\ cancelled = s.cancelled
  /\ pc = s.pc
  /\ next = s.next
  /\ repeatTimers = s.repeatTimers
  /\ inflight = s.inflight
  /\ started = s.started
  /\ unresolved = s.unresolved
  /\ pushed = s.pushed
  /\ dispatched = s.dispatched
  /\ recorded = s.recorded
  /\ last = s.last
  /\ nItem = s.nItem
  /\ nMsg = s.nMsg
  /\ nIngest = s.nIngest
  /\ nTick = s.nTick
  /\ sockets = s.sockets

NoStep == [op |-> "none", did |-> Undefined, text |-> <<>>,
           uniqueChatters |-> 0, allowCommandSpam |-> FALSE,
           accepted |-> FALSE, kind |-> Undefined]

\* The state after construction (module-level initialisers).
Fresh ==
  [ now |-> 0, chatMessages |-> <<>>, commandQueue |-> <<>>,
    identityCache |-> [d \in Dids |-> NoEntry],
    pendingIdentityLookups |-> {},
    chatterActivity |-> <<>>, activeCommandId |-> NoId,
    processingQueue |-> FALSE, overlayClients |-> {},
    cancelled |-> {}, pc |-> "idle", next |-> NoId,
    repeatTimers |-> <<>>, inflight |-> [d \in Dids |-> 0],
    started |-> [d \in Dids |-> 0], unresolved |-> {},
    pushed |-> <<>>, dispatched |-> <<>>, recorded |-> {},
    last |-> NoStep, nItem |-> 0, nMsg |-> 0, nIngest |-> 0, nTick |-> 0,
    sockets |-> <<>> ]

\* Every handler starts with an empty record of its own broadcasts.
Begin(s) == [s EXCEPT !.pushed = <<>>, !.last = NoStep]

\* ------------------------------------------------------------------------
\* Chatter activity tracker
\* ------------------------------------------------------------------------
\* The loop of countUniqueChattersInWindow: shift while the first entry is
\* older than the cutoff.
\* Mutant: an entry exactly as old as the window is evicted too.
StaysStrict(createdAt, cutoff) == createdAt > cutoff

\* first.createdAt >= cutoff: the entry that ends the eviction.
Stays(createdAt, cutoff) == createdAt >= cutoff

\* Mutant: the read drops the oldest entry whatever its age.
EvictHead(activity, cutoff) == IF activity # <<>> THEN Tail(activity) ELSE activity

RECURSIVE EvictOld(_, _)
EvictOld(activity, cutoff) ==
  IF activity # <<>> /\ ~Stays(Head(activity).createdAt, cutoff)
  THEN EvictOld(Tail(activity), cutoff)
  ELSE activity

UniqueDids(activity) == { activity[i].did : i \in 1..Len(activity) }

\* countUniqueChattersInWindow(now): the state after the eviction; the value
\* returned is the number of distinct dids left, UniqueCount of that state.
countUniqueChattersInWindow(s) ==
  [s EXCEPT !.chatterActivity = EvictOld(@, s.now - CHATTER_WINDOW_MS)]

UniqueCount(s) == Cardinality(UniqueDids(s.chatterActivity))

\* Mutant: the repeat suffix stays enabled at the threshold itself.
GateOpenAtThreshold(uniqueChatters) ==
  uniqueChatters <= MIN_UNIQUE_CHATTERS_FOR_NO_SPAM

\* uniqueChatters < MIN_UNIQUE_CHATTERS_FOR_NO_SPAM
GateOpen(uniqueChatters) == uniqueChatters < MIN_UNIQUE_CHATTERS_FOR_NO_SPAM

recordChatterAndCountUnique(s, did) ==
  countUniqueChattersInWindow(
    [s EXCEPT !.chatterActivity = Append(@, [did |-> did, createdAt |-> s.now]),
              !.recorded = @ \cup {[did |-> did, createdAt |-> s.now]}])

\* ------------------------------------------------------------------------
\* Overlay broadcaster
\* ------------------------------------------------------------------------
snapshot(s) ==
  [ chat |-> s.chatMessages,
    queue |-> s.commandQueue,
    activeCommandId |-> s.activeCommandId,
    spamAbility |->
      [ enabled |-> GateOpen(UniqueCount(s)),
        uniqueChatters |-> UniqueCount(s),
        threshold |-> MIN_UNIQUE_CHATTERS_FOR_NO_SPAM,
        windowMinutes |-> CHATTER_WINDOW_MS \div (60 * 1000) ] ]

\* Mutant: no try/catch around the send, so the first failing listener ends
\* the broadcast: nobody behind it is sent the snapshot and it stays in the set.
broadcastUncaught(s) ==
  LET c == countUniqueChattersInWindow(s)
      failing == c.overlayClients \cap c.cancelled
      receivers == IF failing = {} THEN c.overlayClients ELSE {}
  IN  [c EXCEPT !.pushed = Append(@, [data |-> snapshot(c), to |-> receivers,
                                      failed |-> failing])]

\* broadcast(): one snapshot, sent to every subscribed controller; a
\* controller whose enqueue throws is deleted from the set.
broadcast(s) ==
  LET c == countUniqueChattersInWindow(s)
      receivers == c.overlayClients \ c.cancelled
  IN  [c EXCEPT !.overlayClients = receivers,
                !.pushed = Append(@, [data |-> snapshot(c), to |-> receivers,
                                      failed |-> c.overlayClients \cap c.cancelled])]

pushChatMessage(s, did, user, text, isCommand) ==
  LET message == [ id |-> s.nMsg + 1, did |-> did, user |-> user,
                   handle |-> Undefined, avatarUrl |-> Undefined,
                   text |-> text, isCommand |-> isCommand, createdAt |-> s.now ]
      pushedMsgs == Append(s.chatMessages, message)
      kept == IF Len(pushedMsgs) > MAX_CHAT_MESSAGES
              THEN SubSeq(pushedMsgs, Len(pushedMsgs) - MAX_CHAT_MESSAGES + 1,
                          Len(pushedMsgs))
              ELSE pushedMsgs
  IN  broadcast([s EXCEPT !.chatMessages = kept, !.nMsg = @ + 1])

\* ------------------------------------------------------------------------
\* Identity cache
\* ------------------------------------------------------------------------
PatchMessage(message, identity) ==
  IF message.did # identity.did THEN message
  ELSE [message EXCEPT !.user = userLabelForIdentity(identity, identity.did),
                       !.handle = identity.handle,
                       !.avatarUrl = identity.avatarUrl]

\* Mutant: the patch of queue items does not look at the participant.
PatchItemOfAnyone(item, identity) ==
  [item EXCEPT !.user = queueLabelForIdentity(identity, identity.did),
               !.handle = identity.handle,
               !.avatarUrl = identity.avatarUrl]

PatchItem(item, identity) ==
  IF item.did # identity.did THEN item
  ELSE [item EXCEPT !.user = queueLabelForIdentity(identity, identity.did),
                    !.handle = identity.handle,
                    !.avatarUrl = identity.avatarUrl]

\* Mutant: the broadcast is not conditional on a change.
applyIdentityAlwaysBroadcasts(s, identity) ==
  LET chat == [i \in 1..Len(s.chatMessages) |-> PatchMessage(s.chatMessages[i], identity)]
      queue == [i \in 1..Len(s.commandQueue) |-> PatchItem(s.commandQueue[i], identity)]
  IN  broadcast([s EXCEPT !.chatMessages = chat, !.commandQueue = queue])

applyIdentityToOverlay(s, identity) ==
  LET chat == [i \in 1..Len(s.chatMessages) |-> PatchMessage(s.chatMessages[i], identity)]
      queue == [i \in 1..Len(s.commandQueue) |-> PatchItem(s.commandQueue[i], identity)]
      changed == chat # s.chatMessages \/ queue # s.commandQueue
      patched == [s EXCEPT !.chatMessages = chat, !.commandQueue = queue]
  IN  IF changed THEN broadcast(patched) ELSE patched

\* Mutant: an entry is still used at the very millisecond it expires.
cachedIdentityForDidInclusive(s, did) ==
  IF s.identityCache[did] = NoEntry \/ s.identityCache[did].expiresAt < s.now
  THEN NoIdentity
  ELSE s.identityCache[did].identity

cachedIdentityForDid(s, did) ==
  IF s.identityCache[did] = NoEntry \/ s.identityCache[did].expiresAt <= s.now
  THEN NoIdentity
  ELSE s.identityCache[did].identity

CacheSet(s, identity) ==
  [s EXCEPT !.identityCache[identity.did] =
              [identity |-> identity, expiresAt |-> s.now + IDENTITY_CACHE_TTL_MS]]

cacheLocalIdentity(s, identity) ==
  applyIdentityToOverlay(CacheSet(s, identity), identity)

\* Mutant: the in-flight check is missing.
LookupPendingNever(s, did) == FALSE

\* Whether hydrateIdentity returns at the in-flight check.
LookupPending(s, did) == did \in s.pendingIdentityLookups

\* Mutant: the hit branch has no return, so the call goes on to the
\* in-flight check and the external resolution.
hydrateIdentityFallsThrough(s0, did) ==
  LET s == [s0 EXCEPT !.unresolved = @ \ {did}]
      hit == s.identityCache[did] # NoEntry /\ s.identityCache[did].expiresAt > s.now
      t == IF hit THEN applyIdentityToOverlay(s, s.identityCache[did].identity) ELSE s
  IN  IF LookupPending(t, did) THEN t
      ELSE [t EXCEPT !.inflight[did] = @ + 1,
                     !.started[did] = @ + 1,
                     !.pendingIdentityLookups = @ \cup {did}]

\* hydrateIdentity(did) up to its return: a hit reapplies the cached identity,
\* an in-flight marker ends the call, otherwise the external resolution is
\* started (fetchIdentityFromSlingshot runs to its first await) and marked.
hydrateIdentity(s0, did) ==
  LET s == [s0 EXCEPT !.unresolved = @ \ {did}] IN
  IF s.identityCache[did] # NoEntry /\ s.identityCache[did].expiresAt > s.now
  THEN applyIdentityToOverlay(s, s.identityCache[did].identity)
  ELSE IF LookupPending(s, did) THEN s
  ELSE [s EXCEPT !.inflight[did] = @ + 1,
                 !.started[did] = @ + 1,
                 !.pendingIdentityLookups = @ \cup {did}]

\* What fetchIdentityFromSlingshot settles with, when it has no identity.
LookupFailures == {"empty", "fail"}

\* Mutant: a missing identity is stored like a found one.
StoresResultAlways(result) == result.kind # "fail"

\* Whether the .then handler stores a resolution result.
StoresResult(result) == result.kind = "found"

\* Mutant: the marker is deleted only where the result is stored.
ClearMarkerOnSuccess(pending, did, result) ==
  IF result.kind = "found" THEN pending \ {did} ELSE pending

\* .finally(() => pendingIdentityLookups.delete(did))
ClearMarker(pending, did, result) == pending \ {did}

\* The promise chain of hydrateIdentity once the resolution settles: .then on
\* a result (null returns early), .catch on a rejection, .finally always.
LookupSettled(s, did, result) ==
  LET identity == [did |-> did, handle |-> result.handle,
                   displayName |-> result.displayName,
                   avatarUrl |-> result.avatarUrl]
      after == IF StoresResult(result)
               THEN applyIdentityToOverlay(CacheSet(s, identity), identity)
               ELSE s
  IN  [after EXCEPT !.inflight[did] = @ - 1,
                    !.unresolved = IF result.kind \in LookupFailures
                                   THEN @ \cup {did} ELSE @ \ {did},
                    !.pendingIdentityLookups = ClearMarker(@, did, result)]

\* ------------------------------------------------------------------------
\* Command queue
\* ------------------------------------------------------------------------
\* Mutant: the queue is cut only once it is two over its capacity.
trimQueueLate(queue) ==
  IF Len(queue) <= MAX_QUEUE_ITEMS + 1 THEN queue
  ELSE SubSeq(queue, (Len(queue) - MAX_QUEUE_ITEMS) + 1, Len(queue))

\* Mutant: the overflow is cut from the tail, the newest items.
trimQueueNewest(queue) ==
  IF Len(queue) <= MAX_QUEUE_ITEMS THEN queue
  ELSE SubSeq(queue, 1, MAX_QUEUE_ITEMS)

trimQueue(queue) ==
  IF Len(queue) <= MAX_QUEUE_ITEMS THEN queue
  ELSE SubSeq(queue, (Len(queue) - MAX_QUEUE_ITEMS) + 1, Len(queue))

buildQueueItem(s, command, did) ==
  LET cachedIdentity == cachedIdentityForDid(s, did) IN
  [ id |-> s.nItem + 1,
    did |-> did,
    user |-> IF cachedIdentity # NoIdentity
             THEN queueLabelForIdentity(cachedIdentity, did)
             ELSE shortenDid(did),
    handle |-> cachedIdentity.handle,
    avatarUrl |-> cachedIdentity.avatarUrl,
    command |-> command,
    status |-> "queued",
    createdAt |-> s.now ]

\* Assignment to the status of the item object with this id.  The consumer
\* holds the object itself: once the queue has dropped it, the assignment no
\* longer shows in the queue.
SetStatus(queue, id, status) ==
  [i \in 1..Len(queue) |->
     IF queue[i].id = id THEN [queue[i] EXCEPT !.status = status] ELSE queue[i]]

QueuedIndexes(queue) == { i \in 1..Len(queue) : queue[i].status = "queued" }

\* Mutant: the newest queued item is taken instead of the oldest.
FindQueuedNewest(queue) ==
  CHOOSE i \in QueuedIndexes(queue) : \A k \in QueuedIndexes(queue) : i >= k

\* commandQueue.find((item) => item.status === "queued"): index of the match.
FindQueued(queue) ==
  CHOOSE i \in QueuedIndexes(queue) : \A k \in QueuedIndexes(queue) : i <= k

\* Mutant: a failed item is put back in line.
SettledStatusRetry(ok) == IF ok THEN "done" ELSE "queued"

\* The status processQueue assigns when the executor call settles.
SettledStatus(ok) == IF ok THEN "done" ELSE "error"

\* The while loop of processQueue from its top to the next await or return.
RECURSIVE ConsumerLoop(_)
ConsumerLoop(s) ==
  IF QueuedIndexes(s.commandQueue) = {}
  THEN [broadcast([s EXCEPT !.activeCommandId = NoId])
          EXCEPT !.processingQueue = FALSE, !.pc = "idle", !.next = NoId]
  ELSE
    LET item == s.commandQueue[FindQueued(s.commandQueue)] IN
    IF ~parseCommand(item.command, FALSE).ok
    THEN ConsumerLoop(
           broadcast([s EXCEPT !.commandQueue = SetStatus(@, item.id, "error")]))
    ELSE [broadcast([s EXCEPT !.commandQueue = SetStatus(@, item.id, "active"),
                              !.activeCommandId = item.id])
            EXCEPT !.pc = "dispatch", !.next = item.id,
                   !.dispatched = Append(@, item.id)]

\* Mutant: no reentrancy check.
processQueueUnguarded(s) == ConsumerLoop([s EXCEPT !.processingQueue = TRUE])

\* Mutant: the reentrancy check looks at the active item instead of the flag,
\* so a wake during the delay between two commands starts a second loop.
processQueueWhenNoneActive(s) ==
  IF s.activeCommandId # NoId THEN s
  ELSE ConsumerLoop([s EXCEPT !.processingQueue = TRUE])

processQueue(s) ==
  IF s.processingQueue THEN s
  ELSE ConsumerLoop([s EXCEPT !.processingQueue = TRUE])

\* Mutant: an enqueue does not wake the consumer.
enqueueSingleCommandNoWake(s, command, did) ==
  broadcast([s EXCEPT !.commandQueue = trimQueue(Append(@, buildQueueItem(s, command, did))),
                      !.nItem = @ + 1])

enqueueSingleCommand(s, command, did) ==
  processQueue(
    broadcast([s EXCEPT !.commandQueue = trimQueue(Append(@, buildQueueItem(s, command, did))),
                        !.nItem = @ + 1]))

\* Mutant: every occurrence of a repeated command is enqueued at once.
RECURSIVE EnqueuedTimes(_, _, _, _)
EnqueuedTimes(s, normalized, did, n) ==
  IF n = 0 THEN s
  ELSE CHOOSE end \in { EnqueuedTimes(t, normalized, did, n - 1) :
                          t \in {enqueueSingleCommand(s, normalized, did)} } : TRUE

enqueueCommandAtOnce(s, command, did) ==
  EnqueuedTimes(s, command.normalized, did, command.repeatCount)

\* enqueueCommand: the first occurrence at once; for a repeat the loop then
\* sleeps, with repeatCount - 1 occurrences left.
enqueueCommand(s, command, did) ==
  LET first == enqueueSingleCommand(s, command.normalized, did) IN
  IF command.repeatCount <= 1 THEN first
  ELSE [first EXCEPT !.repeatTimers =
          Append(@, [command |-> command.normalized, did |-> did,
                     left |-> command.repeatCount - 1])]

\* Mutant: a repeat occurrence is put right behind the latest occurrence of
\* the same command by the same participant instead of at the tail.
RepeatWakesAhead(s) ==
  LET timer == Head(s.repeatTimers)
      rest == [s EXCEPT !.repeatTimers =
                 IF timer.left > 1
                 THEN Append(Tail(@), [timer EXCEPT !.left = @ - 1])
                 ELSE Tail(@)]
      queue == rest.commandQueue
      same == { i \in 1..Len(queue) :
                  queue[i].command = timer.command /\ queue[i].did = timer.did }
      pos == IF same = {} THEN Len(queue)
             ELSE CHOOSE i \in same : \A k \in same : k <= i
      item == buildQueueItem(rest, timer.command, timer.did)
      placed == SubSeq(queue, 1, pos) \o <<item>> \o SubSeq(queue, pos + 1, Len(queue))
  IN  processQueue(broadcast([rest EXCEPT !.commandQueue = trimQueue(placed),
                                          !.nItem = @ + 1]))

\* Mutant: a repeat loop that wakes checks the gate again and gives up the
\* occurrences left when the room has reached the threshold.
RepeatWakesChecksGate(s) ==
  LET timer == Head(s.repeatTimers)
      rest == [s EXCEPT !.repeatTimers =
                 IF timer.left > 1
                 THEN Append(Tail(@), [timer EXCEPT !.left = @ - 1])
                 ELSE Tail(@)]
      counted == countUniqueChattersInWindow(s)
  IN  IF GateOpen(UniqueCount(counted))
      THEN enqueueSingleCommand(rest, timer.command, timer.did)
      ELSE [counted EXCEPT !.repeatTimers = Tail(@)]

\* A repeat loop wakes from sleep(SPAM_REPEAT_DELAY_MS): it enqueues one
\* occurrence and sleeps again unless that was the last.  All loops sleep
\* for the same delay, so they wake in the order they went to sleep.
RepeatWakes(s) ==
  LET timer == Head(s.repeatTimers)
      rest == [s EXCEPT !.repeatTimers =
                 IF timer.left > 1
                 THEN Append(Tail(@), [timer EXCEPT !.left = @ - 1])
                 ELSE Tail(@)]
  IN  enqueueSingleCommand(rest, timer.command, timer.did)

\* Mutant: the failure of the executor call is not caught, so the loop is
\* left through its finally clause with the item still active.
ExecutorSettledStops(s, ok) ==
  IF ok
  THEN [broadcast([s EXCEPT !.commandQueue = SetStatus(@, s.next, "done"),
                            !.activeCommandId = NoId])
          EXCEPT !.pc = "sleep"]
  ELSE [s EXCEPT !.processingQueue = FALSE, !.pc = "idle", !.next = NoId]

\* Mutant: the consumer records the outcome and clears the active marker
\* without a broadcast.
ExecutorSettledQuiet(s, ok) ==
  [s EXCEPT !.commandQueue = SetStatus(@, s.next, SettledStatus(ok)),
            !.activeCommandId = NoId,
            !.pc = "sleep"]

\* processQueue resumes after the await of dispatchMgbaCommand.
ExecutorSettled(s, ok) ==
  [broadcast([s EXCEPT !.commandQueue = SetStatus(@, s.next, SettledStatus(ok)),
                       !.activeCommandId = NoId])
     EXCEPT !.pc = "sleep"]

\* Mutant: the loop handles one item per wake; after the delay it ends
\* instead of looking for the next queued item.
DelayElapsedEnds(s) ==
  [broadcast([s EXCEPT !.activeCommandId = NoId])
     EXCEPT !.processingQueue = FALSE, !.pc = "idle", !.next = NoId]

\* processQueue resumes after sleep(QUEUE_COMMAND_DELAY_MS).
DelayElapsed(s) == ConsumerLoop(s)

\* ------------------------------------------------------------------------
\* Socket executor: dispatchMgbaCommand with a real socket
\* ------------------------------------------------------------------------
\* One call of dispatchMgbaCommand: the closure's settled flag, what the
\* handlers did to the socket, the promise, and the calls made to resolve and
\* reject.  item, fired, first and closed record which listeners have run,
\* which of the deciding events came first, and for which queue item.
createConnection(id) ==
  [ item |-> id, settled |-> FALSE, destroyed |-> FALSE, ended |-> FALSE,
    promise |-> "pending", resolves |-> 0, rejects |-> 0,
    fired |-> {}, first |-> "none", closed |-> FALSE ]

\* A promise keeps its first settlement; later calls of resolve or reject
\* are counted and change nothing.
resolve(call) ==
  [call EXCEPT !.resolves = @ + 1,
               !.promise = IF @ = "pending" THEN "fulfilled" ELSE @]

reject(call) ==
  [call EXCEPT !.rejects = @ + 1,
               !.promise = IF @ = "pending" THEN "rejected" ELSE @]

fail(call) ==
  IF call.settled THEN call
  ELSE reject([call EXCEPT !.settled = TRUE, !.destroyed = TRUE])

OnTimeout(call) == fail(call)

OnError(call) == fail(call)

\* The connect listener calls socket.write; its callback runs later.
OnConnect(call) == call

\* The callback of socket.write.
OnWritten(call, error) ==
  IF error THEN fail(call) ELSE [call EXCEPT !.ended = TRUE]

\* Mutant: the close listener does not look at the settled flag.
OnCloseUnguarded(call, hadError) ==
  IF hadError THEN reject([call EXCEPT !.settled = TRUE])
  ELSE resolve([call EXCEPT !.settled = TRUE])

OnClose(call, hadError) ==
  IF call.settled THEN call
  ELSE IF hadError THEN reject([call EXCEPT !.settled = TRUE])
  ELSE resolve([call EXCEPT !.settled = TRUE])

\* What the socket can emit: the four events that have a listener, with the
\* two outcomes of a close, and the two outcomes of the write callback.
SocketEvents ==
  {"connect", "written", "writeFailed", "timeout", "error", "close", "closeError"}

Listener(event) ==
  CASE event \in {"written", "writeFailed"} -> "write"
    [] event \in {"close", "closeError"} -> "close"
    [] OTHER -> event

OnEvent(call, event) ==
  CASE event = "connect" -> OnConnect(call)
    [] event = "written" -> OnWritten(call, FALSE)
    [] event = "writeFailed" -> OnWritten(call, TRUE)
    [] event = "timeout" -> OnTimeout(call)
    [] event = "error" -> OnError(call)
    [] event = "close" -> OnClose(call, FALSE)
    [] event = "closeError" -> OnClose(call, TRUE)

\* Every listener is registered with once, the write callback exists once
\* the connect listener has run, a destroyed socket does not connect and a
\* write on it fails, and close is the last event of a socket.  Any other
\* order can happen.
CanEmit(call, event) ==
  /\ ~call.closed
  /\ Listener(event) \notin call.fired
  /\ Listener(event) = "write" => "connect" \in call.fired
  /\ event \in {"connect", "written"} => ~call.destroyed

Listeners == { Listener(event) : event \in SocketEvents }

\* The listener runs.  A closed socket is destroyed and none of its listeners
\* runs again.
Emitted(call, event) ==
  [OnEvent(call, event) EXCEPT
     !.fired = IF Listener(event) = "close" THEN Listeners
               ELSE @ \cup {Listener(event)},
     !.first = IF @ = "none" /\ event \notin {"connect", "written"} THEN event ELSE @,
     !.destroyed = @ \/ Listener(event) = "close",
     !.closed = Listener(event) = "close"]

\* The synchronous part of dispatchMgbaCommand, run by the consumer when it
\* reaches its await: the socket is created and the listeners registered.
dispatchMgbaCommand(s) ==
  IF s.pc = "dispatch" /\ \A k \in 1..Len(s.sockets) : s.sockets[k].item # s.next
  THEN [s EXCEPT !.sockets = Append(@, createConnection(s.next))]
  ELSE s

\* A socket event reaches its listener.  When the listener settles the
\* promise, the consumer resumes before any other event is handled.
SocketEvented(s, k, event) ==
  LET call == Emitted(s.sockets[k], event)
      handled == [s EXCEPT !.sockets[k] = call, !.last.op = "socket",
                           !.last.kind = event]
  IN  IF s.sockets[k].promise = "pending" /\ call.promise # "pending"
      THEN [ExecutorSettled(handled, call.promise = "fulfilled")
              EXCEPT !.last.op = "settle",
                     !.last.accepted = call.promise = "fulfilled"]
      ELSE handled

\* ------------------------------------------------------------------------
\* Ingest of one chat record (the body of the subscription loop)
\* ------------------------------------------------------------------------
\* Mutant: a text the parser rejects is put in the queue as it is, for the
\* consumer to find out.
IngestedEnqueuesAll(s, did, text, record) ==
  LET counted == recordChatterAndCountUnique(s, did)
      uniqueChatters == UniqueCount(counted)
      allowCommandSpam == GateOpen(uniqueChatters)
      parsedCommand == parseCommand(text, allowCommandSpam)
      isCommand == parsedCommand.ok
      user == readUser(record, did)
      shown == pushChatMessage(counted, did, user, text, isCommand)
      localIdentity == localIdentityFromRecord(did, record)
      local == IF localIdentity # NoIdentity
               THEN cacheLocalIdentity(shown, localIdentity)
               ELSE shown
      hydrated == hydrateIdentity(local, did)
      done == IF ~parsedCommand.ok
              THEN enqueueSingleCommand(hydrated, normalizeCommand(text), did)
              ELSE enqueueCommand(hydrated, parsedCommand, did)
  IN  [done EXCEPT !.last = [op |-> "ingest", did |-> did, text |-> text,
                             uniqueChatters |-> uniqueChatters,
                             allowCommandSpam |-> allowCommandSpam,
                             accepted |-> parsedCommand.ok,
                             kind |-> IF localIdentity # NoIdentity
                                      THEN "hint" ELSE Undefined],
                   !.nIngest = @ + 1]

Ingested(s, did, text, record) ==
  LET counted == recordChatterAndCountUnique(s, did)
      uniqueChatters == UniqueCount(counted)
      allowCommandSpam == GateOpen(uniqueChatters)
      parsedCommand == parseCommand(text, allowCommandSpam)
      isCommand == parsedCommand.ok
      user == readUser(record, did)
      shown == pushChatMessage(counted, did, user, text, isCommand)
      localIdentity == localIdentityFromRecord(did, record)
      local == IF localIdentity # NoIdentity
               THEN cacheLocalIdentity(shown, localIdentity)
               ELSE shown
      hydrated == hydrateIdentity(local, did)
      done == IF ~parsedCommand.ok THEN hydrated
              ELSE enqueueCommand(hydrated, parsedCommand, did)
  IN  [done EXCEPT !.last = [op |-> "ingest", did |-> did, text |-> text,
                             uniqueChatters |-> uniqueChatters,
                             allowCommandSpam |-> allowCommandSpam,
                             accepted |-> parsedCommand.ok,
                             kind |-> IF localIdentity # NoIdentity
                                      THEN "hint" ELSE Undefined],
                   !.nIngest = @ + 1]

\* ------------------------------------------------------------------------
\* Overlay event stream
\* ------------------------------------------------------------------------
\* sseStream's start: subscribe the new controller and send it a snapshot.
Subscribed(s, client) ==
  LET c == countUniqueChattersInWindow(s) IN
  [c EXCEPT !.overlayClients = @ \cup {client},
            !.cancelled = @ \ {client},
            !.pushed = Append(@, [data |-> snapshot(c), to |-> {client},
                                  failed |-> {}])]

\* The request's abort listener.
Aborted(s, client) ==
  [s EXCEPT !.overlayClients = @ \ {client}, !.cancelled = @ \ {client}]

\* ------------------------------------------------------------------------
\* Inputs
\* ------------------------------------------------------------------------
\* Participants are interchangeable: the i-th participant to appear is DidOrder[i].
DidOrder == <<"d1", "d2", "d3">>
SeenDids == { e.did : e \in recorded }
IngestDids(n) ==
  { DidOrder[i] : i \in 1..(IF Cardinality(SeenDids) < n
                            THEN Cardinality(SeenDids) + 1
                            ELSE n) }

Plain == <<"a">>
Repeated == <<"B", " ", "x", "2">>
Malformed == <<"u", "p", "+">>
TextLeft == <<"l", "e", "f", "t">>
TextAx3 == <<"a", " ", "x", "3">>
TextB == <<"b">>
Burst == <<"a", " ", "x", "9">>

Hint == [user |-> Undefined, handle |-> "alice.test", avatarUrl |-> Undefined]

LookupFails == [kind |-> "fail", handle |-> Undefined, displayName |-> Undefined,
                avatarUrl |-> Undefined]
LookupEmpty == [kind |-> "empty", handle |-> Undefined, displayName |-> Undefined,
                avatarUrl |-> Undefined]
LookupFound == [kind |-> "found", handle |-> "al.example", displayName |-> "Al",
                avatarUrl |-> Undefined]

\* ------------------------------------------------------------------------
\* Actions
\* ------------------------------------------------------------------------
Ingest(did, text, record, maxIngest) ==
  /\ nIngest < maxIngest
  /\ Becomes(Ingested(Begin(Cur), did, text, record))

RepeatFires ==
  /\ repeatTimers # <<>>
  /\ Becomes([RepeatWakes(Begin(Cur)) EXCEPT !.last.op = "repeat",
                !.last.did = Head(repeatTimers).did])

ExecutorSettles(ok) ==
  /\ pc = "dispatch"
  /\ Becomes([ExecutorSettled(Begin(Cur), ok) EXCEPT !.last.op = "settle",
                !.last.accepted = ok])

DelayElapses ==
  /\ pc = "sleep"
  /\ Becomes([DelayElapsed(Begin(Cur)) EXCEPT !.last.op = "delay"])

LookupSettles(did, result) ==
  /\ inflight[did] > 0
  /\ Becomes([LookupSettled(Begin(Cur), did, result) EXCEPT !.last.op = "lookup",
                !.last.did = did, !.last.kind = result.kind])

Tick(step, maxTicks) ==
  /\ nTick < maxTicks
  /\ Becomes([Begin(Cur) EXCEPT !.now = @ + step, !.nTick = @ + 1,
                                !.last.op = "tick"])

Subscribe(client) ==
  /\ client \notin overlayClients
  /\ Becomes([Subscribed(Begin(Cur), client) EXCEPT !.last.op = "subscribe"])

Abort(client) ==
  /\ client \in overlayClients
  /\ Becomes([Aborted(Begin(Cur), client) EXCEPT !.last.op = "abort"])

\* The reader of a subscribed stream goes away: enqueue on it throws from now on.
StreamCancelled(client) ==
  /\ client \in overlayClients \ cancelled
  /\ Becomes([Begin(Cur) EXCEPT !.cancelled = @ \cup {client},
                                !.last.op = "cancel"])

Init == StateIs(Fresh)

\* ------------------------------------------------------------------------
\* Environments.  An environment names the participants, texts, record
\* fields, lookup results, executor outcomes, clock steps and overlay clients
\* that occur, and how many records and clock steps.
\* ------------------------------------------------------------------------
IngestAny(env) ==
  \E did \in IngestDids(env.dids), text \in env.texts, record \in env.records :
    Ingest(did, text, record, env.maxIngest)

ExecutorAny(env) == \E ok \in env.outcomes : ExecutorSettles(ok)

LookupAny(env) == \E did \in Dids, result \in env.results : LookupSettles(did, result)

TickAny(env) == \E step \in env.steps : Tick(step, env.maxTicks)

SubscribeAny(env) == \E client \in env.clients : Subscribe(client)

AbortAny(env) == \E client \in env.clients : Abort(client)

CancelAny(env) == \E client \in env.clients : StreamCancelled(client)

\* ------------------------------------------------------------------------
\* Spec: the command queue.  One participant sends plain and repeated
\* commands; the executor succeeds or fails; the lookup fails or resolves;
\* one overlay client comes and goes.
\* ------------------------------------------------------------------------
MaxIngest == 2

QueueEnv ==
  [ dids |-> 1, texts |-> {Plain, Repeated}, records |-> {NoFields},
    results |-> {LookupFails, LookupFound}, outcomes |-> BOOLEAN,
    steps |-> {}, clients |-> {"c1"}, maxIngest |-> MaxIngest, maxTicks |-> 0 ]

Next ==
  \/ IngestAny(QueueEnv)
  \/ RepeatFires
  \/ ExecutorAny(QueueEnv)
  \/ DelayElapses
  \/ LookupAny(QueueEnv)
  \/ SubscribeAny(QueueEnv)
  \/ AbortAny(QueueEnv)
  \/ CancelAny(QueueEnv)

Spec == Init /\ [][Next]_vars

\* ------------------------------------------------------------------------
\* SpecIdentity: the identity cache.  Two participants send a plain command,
\* with or without identity fields in the record; the lookup fails, is
\* empty or resolves; the clock can pass the cache's time to live.
\* ------------------------------------------------------------------------
IdentityIngest == 2
IdentityTicks == 1

IdentityEnv ==
  [ dids |-> 2, texts |-> {Plain}, records |-> {NoFields, Hint},
    results |-> {LookupFails, LookupEmpty, LookupFound}, outcomes |-> {TRUE},
    steps |-> {IDENTITY_CACHE_TTL_MS}, clients |-> {},
    maxIngest |-> IdentityIngest, maxTicks |-> IdentityTicks ]

NextIdentity ==
  \/ IngestAny(IdentityEnv)
  \/ ExecutorAny(IdentityEnv)
  \/ DelayElapses
  \/ LookupAny(IdentityEnv)
  \/ TickAny(IdentityEnv)

SpecIdentity == Init /\ [][NextIdentity]_vars

\* ------------------------------------------------------------------------
\* SpecTracker: the activity window and the gate.  Three participants send
\* plain and repeated commands while the clock advances by a millisecond or
\* by the length of the window; an overlay client connects, which reads the
\* count outside any ingest.  The executor and the lookups stay pending.
\* ------------------------------------------------------------------------
TrackerIngest == 3
TrackerTicks == 2

TrackerEnv ==
  [ dids |-> 3, texts |-> {Plain, Repeated}, records |-> {NoFields},
    results |-> {}, outcomes |-> {},
    steps |-> {1, CHATTER_WINDOW_MS}, clients |-> {"c1"},
    maxIngest |-> TrackerIngest, maxTicks |-> TrackerTicks ]

NextTracker ==
  \/ IngestAny(TrackerEnv)
  \/ TickAny(TrackerEnv)
  \/ SubscribeAny(TrackerEnv)
  \/ AbortAny(TrackerEnv)

SpecTracker == Init /\ [][NextTracker]_vars

\* ------------------------------------------------------------------------
\* SpecFull: the buffers at their capacities.  The exploration starts from
\* the state the program is in after one participant, watched by one overlay
\* client, has sent all but one of the chat messages the chat buffer holds:
\* the first command ran, the second failed, the third is with the executor
\* and the rest wait behind it; the last message was a burst whose repeat
\* loop has filled the queue to one below its capacity and has more to come.
\* From there the participant sends plain and repeated commands while the
\* consumer carries on.
\* ------------------------------------------------------------------------
FullIngest == 2

\* One step of a script: the handler it names, run on a state.
Played(s, e) ==
  CASE e.op = "subscribe" -> Subscribed(s, e.client)
    [] e.op = "ingest" -> Ingested(s, e.did, e.text, e.record)
    [] e.op = "lookup" -> LookupSettled(s, e.did, e.result)
    [] e.op = "settle" -> ExecutorSettled(s, e.ok)
    [] e.op = "delay" -> DelayElapsed(s)
    [] e.op = "repeat" -> RepeatWakes(s)

\* The state after the steps of a script, one after the other.
RECURSIVE Replayed(_, _)
Replayed(s, script) ==
  IF script = <<>> THEN s
  ELSE CHOOSE end \in { Replayed(t, Tail(script)) : t \in {Played(s, Head(script))} } :
         TRUE

Sends(text) == [op |-> "ingest", did |-> "d1", text |-> text, record |-> NoFields]

FillScript ==
  << [op |-> "subscribe", client |-> "c1"],
     Sends(Plain),
     [op |-> "lookup", did |-> "d1", result |-> LookupFound],
     [op |-> "settle", ok |-> TRUE],
     [op |-> "delay"],
     Sends(Plain),
     [op |-> "settle", ok |-> FALSE],
     [op |-> "delay"] >>
  \o [i \in 1..(MAX_CHAT_MESSAGES - 4) |-> Sends(Plain)]
  \o << Sends(Burst) >>
  \o [i \in 1..(MAX_QUEUE_ITEMS - MAX_CHAT_MESSAGES) |-> [op |-> "repeat"]]

NearFull == Begin(Replayed(Fresh, FillScript))

InitFull == \E s \in {NearFull} : StateIs(s)

FullEnv ==
  [ dids |-> 1, texts |-> {Plain, Repeated}, records |-> {NoFields},
    results |-> {}, outcomes |-> {TRUE}, steps |-> {}, clients |-> {},
    maxIngest |-> (MAX_CHAT_MESSAGES - 1) + FullIngest, maxTicks |-> 0 ]

NextFull ==
  \/ IngestAny(FullEnv)
  \/ RepeatFires
  \/ ExecutorAny(FullEnv)
  \/ DelayElapses

SpecFull == InitFull /\ [][NextFull]_vars

\* ------------------------------------------------------------------------
\* SpecRepeat: repeated commands among other commands.  Two participants
\* send "left", "a x3" and "b" in any order while repeat loops wake and the
\* consumer runs the items.
\* ------------------------------------------------------------------------
RepeatIngest == 3

RepeatEnv ==
  [ dids |-> 2, texts |-> {TextLeft, TextAx3, TextB}, records |-> {NoFields},
    results |-> {}, outcomes |-> {TRUE}, steps |-> {}, clients |-> {},
    maxIngest |-> RepeatIngest, maxTicks |-> 0 ]

NextRepeat ==
  \/ IngestAny(RepeatEnv)
  \/ RepeatFires
  \/ ExecutorAny(RepeatEnv)
  \/ DelayElapses

SpecRepeat == Init /\ [][NextRepeat]_vars

\* ------------------------------------------------------------------------
\* SpecParser: the parser on many texts.  A text is one to MaxParts parts
\* joined by "+", then maybe a hold suffix, then maybe a repeat suffix, the
\* whole maybe padded with whitespace.  The exploration starts with three
\* participants inside the window, so the next record is parsed with repeats
\* disallowed; once the window has passed, with repeats allowed.
\* ------------------------------------------------------------------------
MaxParts == 3

PartChoices ==
  { <<"a">>, <<"U", "p">>, <<"q">>, <<>>, <<"a", " ">> }

HoldChoices == { <<>>, <<"-">>, <<" ", "-">> }

SuffixChoices ==
  { <<>>,
    <<" ", "X", "2">>,
    <<" ", "x", "1">>,
    <<" ", "x", "1", "0", "0">>,
    <<" ", "x", "1", "0", "1">>,
    <<"x", "2">>,
    <<" ", "x", "2", " ", "x", "3">> }

PadChoices == { <<>>, <<" ">> }

PartSeqs == UNION { [1..k -> PartChoices] : k \in 1..MaxParts }

\* The parts written one after the other with a "+" between them.
RECURSIVE Written(_)
Written(parts) ==
  IF Len(parts) = 1 THEN parts[1]
  ELSE parts[1] \o <<"+">> \o Written(Tail(parts))

ParserTexts ==
  { pad \o Written(parts) \o hold \o suffix \o pad :
      parts \in PartSeqs, hold \in HoldChoices,
      suffix \in SuffixChoices, pad \in PadChoices }

SendsAs(did, text) == [op |-> "ingest", did |-> did, text |-> text, record |-> NoFields]

CrowdScript == << SendsAs("d1", Plain), SendsAs("d2", Plain), SendsAs("d3", Plain) >>

Crowded == Begin(Replayed(Fresh, CrowdScript))

InitParser == \E s \in {Crowded} : StateIs(s)

ParserEnv ==
  [ dids |-> 1, texts |-> ParserTexts, records |-> {NoFields},
    results |-> {}, outcomes |-> {}, steps |-> {CHATTER_WINDOW_MS + 1},
    clients |-> {}, maxIngest |-> Len(CrowdScript) + 1, maxTicks |-> 1 ]

\* One more record arrives, with any of the texts.
IngestOnce(env) == nIngest < env.maxIngest /\ IngestAny(env)

NextParser ==
  \/ IngestOnce(ParserEnv)
  \/ TickAny(ParserEnv)

SpecParser == InitParser /\ [][NextParser]_vars

\* ------------------------------------------------------------------------
\* SpecReject: rejected texts among accepted ones.  One participant sends a
\* repeated command and a malformed text, in records with or without
\* identity fields, while the repeat loop and the consumer run.
\* ------------------------------------------------------------------------
RejectIngest == 3

RejectEnv ==
  [ dids |-> 1, texts |-> {Repeated, Malformed}, records |-> {NoFields, Hint},
    results |-> {}, outcomes |-> {TRUE}, steps |-> {}, clients |-> {},
    maxIngest |-> RejectIngest, maxTicks |-> 0 ]

NextReject ==
  \/ IngestAny(RejectEnv)
  \/ RepeatFires
  \/ ExecutorAny(RejectEnv)
  \/ DelayElapses

SpecReject == Init /\ [][NextReject]_vars

\* ------------------------------------------------------------------------
\* SpecFailure: the executor fails.  One participant sends plain and repeated
\* commands; every executor call succeeds, fails or times out (a timeout
\* rejects the call like a failure); the call always settles, because it is
\* bounded by its timeout, and the delay between commands always elapses.
\* Both resumptions are told by the consumer's position alone: only the
\* settling of the call moves it from dispatch to sleep, and only the end of
\* the delay moves it out of sleep.
\* ------------------------------------------------------------------------
FailureIngest == 3

FailureEnv ==
  [ dids |-> 1, texts |-> {Plain, Repeated}, records |-> {NoFields},
    results |-> {}, outcomes |-> BOOLEAN, steps |-> {}, clients |-> {},
    maxIngest |-> FailureIngest, maxTicks |-> 0 ]

NextFailure ==
  \/ IngestAny(FailureEnv)
  \/ RepeatFires
  \/ ExecutorAny(FailureEnv)
  \/ DelayElapses

SpecFailure ==
  /\ Init
  /\ [][NextFailure]_vars
  /\ WF_pc(pc = "dispatch" /\ pc' = "sleep")
  /\ WF_pc(pc = "sleep" /\ pc' \in {"idle", "dispatch"})

\* ------------------------------------------------------------------------
\* SpecOverlay: two overlay listeners.  Each subscribes, aborts its request
\* or has its stream cancelled (its enqueue throws from then on), while one
\* participant's commands are ingested and consumed.
\* ------------------------------------------------------------------------
OverlayIngest == 2

OverlayEnv ==
  [ dids |-> 1, texts |-> {Plain}, records |-> {NoFields},
    results |-> {}, outcomes |-> BOOLEAN, steps |-> {}, clients |-> {"c1", "c2"},
    maxIngest |-> OverlayIngest, maxTicks |-> 0 ]

NextOverlay ==
  \/ IngestAny(OverlayEnv)
  \/ ExecutorAny(OverlayEnv)
  \/ DelayElapses
  \/ SubscribeAny(OverlayEnv)
  \/ AbortAny(OverlayEnv)
  \/ CancelAny(OverlayEnv)

SpecOverlay == Init /\ [][NextOverlay]_vars

\* ------------------------------------------------------------------------
\* SpecGate: the room fills while repeats are pending.  Up to three
\* participants send "a x3" or "a"; repeat loops, executor calls and delays
\* all come to an end (sleep and the executor's timeout are bounded), in any
\* order.  A repeat loop's waking is told by its timer alone: the head timer
\* counts down, or leaves when it was at its last occurrence.
\* ------------------------------------------------------------------------
GateIngest == 3

GateEnv ==
  [ dids |-> 3, texts |-> {TextAx3, Plain}, records |-> {NoFields},
    results |-> {}, outcomes |-> {TRUE}, steps |-> {}, clients |-> {},
    maxIngest |-> GateIngest, maxTicks |-> 0 ]

NextGate ==
  \/ IngestAny(GateEnv)
  \/ RepeatFires
  \/ ExecutorAny(GateEnv)
  \/ DelayElapses

SpecGate ==
  /\ Init
  /\ [][NextGate]_vars
  /\ WF_pc(pc = "dispatch" /\ pc' = "sleep")
  /\ WF_pc(pc = "sleep" /\ pc' \in {"idle", "dispatch"})
  /\ WF_repeatTimers(/\ repeatTimers # <<>>
                     /\ repeatTimers' =
                          IF Head(repeatTimers).left > 1
                          THEN Append(Tail(repeatTimers),
                                      [Head(repeatTimers) EXCEPT !.left = @ - 1])
                          ELSE Tail(repeatTimers))

\* ------------------------------------------------------------------------
\* SpecNested: repeat suffixes on repeat suffixes.  One participant, so that
\* repeats are always allowed, sends texts with one, two or three suffixes.
\* ------------------------------------------------------------------------
NestedIngest == 2

TextAx2x3 == <<"a", " ", "x", "2", " ", "x", "3">>
TextNestedThrice == <<"U", "p", " ", "x", "2", " ", "X", "2", " ", " ", "x", "2">>
TextHoldNested == <<"b", "-", " ", "x", "3", " ", "x", "2", " ">>
TextGlued == <<"a", " ", "x", "2", "x", "3">>

NestedEnv ==
  [ dids |-> 1,
    texts |-> {TextAx3, TextAx2x3, TextNestedThrice, TextHoldNested, TextGlued},
    records |-> {NoFields}, results |-> {}, outcomes |-> {TRUE}, steps |-> {},
    clients |-> {}, maxIngest |-> NestedIngest, maxTicks |-> 0 ]

NextNested ==
  \/ IngestAny(NestedEnv)
  \/ RepeatFires
  \/ ExecutorAny(NestedEnv)
  \/ DelayElapses

SpecNested == Init /\ [][NextNested]_vars

\* ------------------------------------------------------------------------
\* SpecExpiry: the edge of the cache's time to live.  One participant sends
\* a plain command in records with or without identity fields; the lookup
\* resolves; the clock advances to one millisecond before an expiry, or by
\* one millisecond.  The executor stays pending.
\* ------------------------------------------------------------------------
ExpiryIngest == 3
ExpiryTicks == 2

ExpiryEnv ==
  [ dids |-> 1, texts |-> {Plain}, records |-> {NoFields, Hint},
    results |-> {LookupFound}, outcomes |-> {},
    steps |-> {IDENTITY_CACHE_TTL_MS - 1, 1}, clients |-> {},
    maxIngest |-> ExpiryIngest, maxTicks |-> ExpiryTicks ]

NextExpiry ==
  \/ IngestAny(ExpiryEnv)
  \/ LookupAny(ExpiryEnv)
  \/ TickAny(ExpiryEnv)

SpecExpiry == Init /\ [][NextExpiry]_vars

\* ------------------------------------------------------------------------
\* SpecReparse: the consumer parses what the ingest stored.  Up to three
\* participants send a padded, capitalised two-button hold or a repeated
\* hold, so that texts are accepted with repeats allowed and, once the third
\* participant has spoken, with repeats disallowed; the executor fails on
\* every command, so every item that was dispatched ends in error.
\* ------------------------------------------------------------------------
ReparseIngest == 3

TextHoldPair == <<" ", "U", "p", " ", "+", " ", "B", " ", "-", " ">>
TextHoldTwice == <<"a", "-", " ", "x", "2">>

ReparseEnv ==
  [ dids |-> 3, texts |-> {TextHoldPair, TextHoldTwice},
    records |-> {NoFields}, results |-> {}, outcomes |-> {FALSE}, steps |-> {},
    clients |-> {}, maxIngest |-> ReparseIngest, maxTicks |-> 0 ]

NextReparse ==
  \/ IngestAny(ReparseEnv)
  \/ RepeatFires
  \/ ExecutorAny(ReparseEnv)
  \/ DelayElapses

SpecReparse == Init /\ [][NextReparse]_vars

\* ------------------------------------------------------------------------
\* SpecSocket: the socket executor.  One participant sends plain commands;
\* every dispatch opens a socket, whose events arrive in any order; a socket
\* that stays open times out or closes.
\* ------------------------------------------------------------------------
SocketIngest == 2

SocketEnv ==
  [ dids |-> 1, texts |-> {Plain}, records |-> {NoFields}, results |-> {},
    outcomes |-> {}, steps |-> {}, clients |-> {}, maxIngest |-> SocketIngest,
    maxTicks |-> 0 ]

IngestDispatches(env) ==
  \E did \in IngestDids(env.dids), text \in env.texts, record \in env.records :
    /\ nIngest < env.maxIngest
    /\ Becomes(dispatchMgbaCommand(Ingested(Begin(Cur), did, text, record)))

DelayDispatches ==
  /\ pc = "sleep"
  /\ Becomes(dispatchMgbaCommand([DelayElapsed(Begin(Cur)) EXCEPT !.last.op = "delay"]))

SocketEmits(event) ==
  \E k \in 1..Len(sockets) :
    /\ CanEmit(sockets[k], event)
    /\ Becomes(SocketEvented(Begin(Cur), k, event))

SocketConnects == SocketEmits("connect")

SocketWritten == \E event \in {"written", "writeFailed"} : SocketEmits(event)

SocketTimesOut == SocketEmits("timeout")

SocketErrors == SocketEmits("error")

SocketCloses == \E event \in {"close", "closeError"} : SocketEmits(event)

\* socket.setTimeout: a socket with nothing happening on it emits timeout,
\* and a socket that was ended or destroyed emits close.
TimesOutOrCloses ==
  \E k \in 1..Len(sockets) :
    /\ sockets[k].promise = "pending"
    /\ sockets' \in { [sockets EXCEPT ![k] = Emitted(@, event)] :
                        event \in {"timeout", "close", "closeError"} }

NextSocket ==
  \/ IngestDispatches(SocketEnv)
  \/ DelayDispatches
  \/ SocketConnects
  \/ SocketWritten
  \/ SocketTimesOut
  \/ SocketErrors
  \/ SocketCloses

SpecSocket ==
  /\ Init
  /\ [][NextSocket]_vars
  /\ WF_sockets(TimesOutOrCloses)

\* ------------------------------------------------------------------------
\* Properties
\* ------------------------------------------------------------------------
Range(seq) == { seq[i] : i \in 1..Len(seq) }

ActiveCount(queue) ==
  Cardinality({ i \in 1..Len(queue) : queue[i].status = "active" })

\* C1: at most one item of the command queue is active, in the stored queue
\* and in every snapshot a broadcast computes and pushes.
C1_AtMostOneActive ==
  /\ ActiveCount(commandQueue) <= 1
  /\ \A k \in 1..Len(pushed) : ActiveCount(pushed[k].data.queue) <= 1

\* A listener is sent a snapshot in which the second item is the active one,
\* after the first was executed and while a repeat is still to come.
C1_Witness ==
  /\ last.op = "delay"
  /\ repeatTimers # <<>>
  /\ \E k \in 1..Len(pushed) :
       /\ pushed[k].to # {}
       /\ ActiveCount(pushed[k].data.queue) = 1
       /\ \E i \in 1..Len(pushed[k].data.queue) :
            pushed[k].data.queue[i].status \in {"done", "error"}

\* C2: items are handed to the executor in the order they were appended (ids
\* are given in append order); a handled item never has a queued item before
\* it; and the consumer stops only when no item is queued, so an error item
\* blocks nothing.
C2_OldestFirst ==
  /\ \A i, j \in 1..Len(dispatched) : i < j => dispatched[i] < dispatched[j]
  /\ \A i, j \in 1..Len(commandQueue) :
       (i < j /\ commandQueue[j].status # "queued")
         => commandQueue[i].status # "queued"
  /\ pc = "idle" => QueuedIndexes(commandQueue) = {}

\* An item that failed is followed by an item that was handed to the executor.
C2_Witness ==
  \E i, j \in 1..Len(commandQueue) :
    /\ i < j
    /\ commandQueue[i].status = "error"
    /\ commandQueue[j].status \in {"active", "done"}
    /\ commandQueue[j].id \in Range(dispatched)

StatusMoves ==
  { <<"queued", "active">>, <<"active", "done">>, <<"active", "error">>,
    <<"queued", "error">> }

\* C3: an item's status moves only queued -> active, active -> done,
\* active -> error, or queued -> error when its command does not re-parse;
\* done and error never change; no item is handed to the executor twice.
C3_StatusMachine ==
  [][ /\ \A i \in 1..Len(commandQueue), j \in 1..Len(commandQueue') :
           commandQueue[i].id = commandQueue'[j].id =>
             /\ \/ commandQueue'[j].status = commandQueue[i].status
                \/ <<commandQueue[i].status, commandQueue'[j].status>> \in StatusMoves
             /\ (commandQueue[i].status = "queued" /\ commandQueue'[j].status = "error")
                  => ~parseCommand(commandQueue[i].command, FALSE).ok
      /\ \A k \in (Len(dispatched) + 1)..Len(dispatched') :
           dispatched'[k] \notin Range(dispatched)
    ]_vars

\* The executor has just failed for an item, after succeeding for another.
C3_Witness ==
  /\ last.op = "settle"
  /\ ~last.accepted
  /\ \E i, j \in 1..Len(commandQueue) :
       commandQueue[i].status = "done" /\ commandQueue[j].status = "error"

\* Whether the cache holds a non-expired entry for the participant.
CacheValid(cache, did, time) ==
  cache[did] # NoEntry /\ cache[did].expiresAt > time

MessagesOf(did) ==
  Cardinality({ i \in 1..Len(chatMessages) : chatMessages[i].did = did })

\* C6: for every participant at most one external resolution is in flight,
\* and the in-flight marker is there exactly while one is: resolve requests
\* that arrive before the resolution settles start no second call.
C6_OneLookupInFlight ==
  \A did \in Dids :
    /\ inflight[did] <= 1
    /\ did \in pendingIdentityLookups <=> inflight[did] = 1

\* A second record of the same participant was ingested while the first
\* resolution was in flight and nothing was cached: one call was started.
C6_Witness ==
  \E did \in Dids :
    /\ last.op = "ingest" /\ last.did = did
    /\ MessagesOf(did) = 2
    /\ identityCache[did] = NoEntry
    /\ inflight[did] = 1 /\ started[did] = 1

\* C7: the step in which an external resolution settles (found, empty or
\* failed) leaves no in-flight marker for that participant, and a resolve
\* that finds neither a marker nor a non-expired entry starts a new call.
C7_MarkerRemoved ==
  [][ \A did \in Dids :
        /\ inflight'[did] < inflight[did] => did \notin pendingIdentityLookups'
        /\ ( /\ last'.op = "ingest" /\ last'.did = did
             /\ did \notin pendingIdentityLookups
             /\ ~CacheValid(identityCache', did, now') )
           => /\ started'[did] = started[did] + 1
              /\ did \in pendingIdentityLookups'
    ]_vars

\* After a resolution that gave no identity, the participant's next record
\* started a second external call.
C7_Witness ==
  \E did \in Dids :
    /\ last.op = "ingest" /\ last.did = did
    /\ started[did] = 2 /\ inflight[did] = 1
    /\ identityCache[did] = NoEntry

\* The settling of a resolution that gave no identity changes neither the
\* cache nor a stored chat or queue entry, and broadcasts nothing.
FailedLookupFrame ==
  (last'.op = "lookup" /\ last'.kind \in LookupFailures)
    => /\ identityCache' = identityCache
       /\ chatMessages' = chatMessages
       /\ commandQueue' = commandQueue
       /\ pushed' = <<>>

WindowDids(time) ==
  { e.did : e \in { r \in recorded : r.createdAt >= time - CHATTER_WINDOW_MS } }

\* C9: every count the tracker returns, to an ingest or to a snapshot, is the
\* number of participants with an entry recorded no earlier than the window
\* before the time of the read; the clock never goes back.
C9_CountWithinWindow ==
  /\ last.op = "ingest" => last.uniqueChatters = Cardinality(WindowDids(now))
  /\ \A k \in 1..Len(pushed) :
       pushed[k].data.spamAbility.uniqueChatters = Cardinality(WindowDids(now))

\* A count was read when one participant's only entry was older than the
\* window and another's was exactly as old as the window: the second counts.
C9_Witness ==
  /\ last.op \in {"ingest", "subscribe"}
  /\ pushed # <<>>
  /\ \E old, edge \in recorded :
       /\ old.createdAt < now - CHATTER_WINDOW_MS
       /\ old.did \notin WindowDids(now)
       /\ edge.createdAt = now - CHATTER_WINDOW_MS
       /\ \A r \in recorded : r.did = edge.did => r.createdAt <= edge.createdAt
       /\ pushed[1].data.spamAbility.uniqueChatters >= 1

IsRepeatForm(text) == SpamMatchEnds(normalizeCommand(text)) # {}

ItemIds(queue) == [i \in 1..Len(queue) |-> queue[i].id]

\* C10: at an ingest the repeat suffix is allowed exactly when fewer than 3
\* participants, the sender included, have an entry in the trailing window;
\* a repeat-suffix text is then accepted as its parse with repeats allowed,
\* and otherwise rejected, and a rejected text enqueues and schedules nothing.
C10_GateAtIngest ==
  [][ last'.op = "ingest" =>
        /\ last'.did \in WindowDids(now)'
        /\ last'.allowCommandSpam
             <=> Cardinality(WindowDids(now)') < MIN_UNIQUE_CHATTERS_FOR_NO_SPAM
        /\ IsRepeatForm(last'.text) =>
             last'.accepted
               <=> (/\ Cardinality(WindowDids(now)') < MIN_UNIQUE_CHATTERS_FOR_NO_SPAM
                    /\ parseCommand(last'.text, TRUE).ok)
        /\ ~last'.accepted =>
             /\ ItemIds(commandQueue') = ItemIds(commandQueue)
             /\ nItem' = nItem
             /\ repeatTimers' = repeatTimers
    ]_vars

\* A repeat-suffix text that was accepted from a quiet room is rejected once
\* a third participant is in the window.
C10_Witness ==
  /\ last.op = "ingest"
  /\ IsRepeatForm(last.text)
  /\ last.uniqueChatters = MIN_UNIQUE_CHATTERS_FOR_NO_SPAM
  /\ ~last.accepted
  /\ repeatTimers # <<>>

WithinCapacity(chat, queue) ==
  /\ Len(chat) <= MAX_CHAT_MESSAGES
  /\ Len(queue) <= MAX_QUEUE_ITEMS

\* C4: after every handler, and in every snapshot a handler pushes, the chat
\* sequence holds at most 35 messages and the command queue at most 40 items.
C4_WithinCapacity ==
  /\ WithinCapacity(chatMessages, commandQueue)
  /\ \A k \in 1..Len(pushed) :
       WithinCapacity(pushed[k].data.chat, pushed[k].data.queue)

\* Both buffers have overflowed and the client was sent full ones.
C4_Witness ==
  /\ nMsg > MAX_CHAT_MESSAGES
  /\ nItem > MAX_QUEUE_ITEMS
  /\ \E k \in 1..Len(pushed) :
       /\ pushed[k].to # {}
       /\ Len(pushed[k].data.chat) = MAX_CHAT_MESSAGES
       /\ Len(pushed[k].data.queue) = MAX_QUEUE_ITEMS

Min(a, b) == IF a < b THEN a ELSE b

\* C5: the stored queue is the 40 most recently enqueued items, or all of
\* them while there are no more than 40, in arrival order (items are
\* numbered as they arrive).
C5_MostRecentKept ==
  /\ Len(commandQueue) = Min(MAX_QUEUE_ITEMS, nItem)
  /\ \A i \in 1..Len(commandQueue) :
       commandQueue[i].id = (nItem - Len(commandQueue)) + i

\* The overflow has removed a done item, an error item, the item the
\* executor is still running, and a queued item behind it.
C5_Witness ==
  /\ Len(commandQueue) = MAX_QUEUE_ITEMS
  /\ pc = "dispatch"
  /\ next + 1 < commandQueue[1].id
  /\ Len(dispatched) = 3

\* The entries of an activity sequence recorded at or after a cutoff, in order.
InWindowEntries(activity, cutoff) ==
  SelectSeq(activity, LAMBDA e : e.createdAt >= cutoff)

\* C11 as stated: no snapshot and no broadcast changes the stored sequence
\* of activity entries.
C11_Original ==
  /\ countUniqueChattersInWindow(Cur).chatterActivity = chatterActivity
  /\ broadcast(Cur).chatterActivity = chatterActivity
  /\ Subscribed(Cur, "c1").chatterActivity = chatterActivity

\* C11: a snapshot or a broadcast taken in any reachable state records no
\* entry and removes exactly the entries older than the window, which no
\* later count includes: the entries left are those of the window, in order,
\* and the count and enabled flag it reports are those of the window.
C11_SnapshotOnlyEvictsExpired ==
  LET kept == InWindowEntries(chatterActivity, now - CHATTER_WINDOW_MS)
      sent == broadcast(Cur)
      data == sent.pushed[Len(sent.pushed)].data
  IN  /\ countUniqueChattersInWindow(Cur).chatterActivity = kept
      /\ sent.chatterActivity = kept
      /\ Subscribed(Cur, "c1").chatterActivity = kept
      /\ sent.recorded = recorded
      /\ data.spamAbility.uniqueChatters = Cardinality(WindowDids(now))
      /\ data.spamAbility.enabled
           <=> Cardinality(WindowDids(now)) < MIN_UNIQUE_CHATTERS_FOR_NO_SPAM
      /\ data.spamAbility.threshold = MIN_UNIQUE_CHATTERS_FOR_NO_SPAM
      /\ data.spamAbility.windowMinutes = 10

\* A client's first snapshot has just been taken at a time when an entry
\* had grown older than the window while another was still inside it: the
\* old entry is gone from the stored sequence.
C11_Witness ==
  /\ last.op = "subscribe"
  /\ chatterActivity # <<>>
  /\ \E old \in recorded :
       /\ old.createdAt < now - CHATTER_WINDOW_MS
       /\ \A i \in 1..Len(chatterActivity) : chatterActivity[i] # old

IsPrefix(a, b) == Len(a) <= Len(b) /\ a = SubSeq(b, 1, Len(a))

ItemWithId(queue, id) == queue[CHOOSE i \in 1..Len(queue) : queue[i].id = id]

HasId(queue, id) == \E i \in 1..Len(queue) : queue[i].id = id

\* The commands handed to the executor so far, in order (while no item has
\* left the queue).
DispatchedCommands ==
  [k \in 1..Len(dispatched) |-> ItemWithId(commandQueue, dispatched[k]).command]

ExampleOrder == << <<"l", "e", "f", "t">>, <<"a">>, <<"b">>, <<"a">>, <<"a">> >>

\* "left", "a x3" and "b" were accepted in that order, "b" before the first
\* repeat of "a" was due: they are the first three items to arrive.
ExampleAccepted ==
  /\ nIngest = 3
  /\ Len(chatMessages) = 3
  /\ chatMessages[1].text = TextLeft /\ chatMessages[1].isCommand
  /\ chatMessages[2].text = TextAx3 /\ chatMessages[2].isCommand
  /\ chatMessages[3].text = TextB /\ chatMessages[3].isCommand
  /\ HasId(commandQueue, 3)
  /\ ItemWithId(commandQueue, 3).command = TextB

\* C12: when a repeat loop wakes, its occurrence goes to the tail of the
\* queue, behind every item already there, and nothing already there is
\* changed; an item is handed to the executor only when no item that arrived
\* before it is still queued; and after "left", "a x3", "b" the executor is
\* invoked in the order left, a, b, a, a.
C12_RepeatJoinsTail ==
  [][ /\ last'.op = "repeat" =>
           /\ Len(commandQueue') = Len(commandQueue) + 1
           /\ SubSeq(commandQueue', 1, Len(commandQueue)) = commandQueue
           /\ commandQueue'[Len(commandQueue')].id = nItem + 1
           /\ commandQueue'[Len(commandQueue')].command = Head(repeatTimers).command
           /\ commandQueue'[Len(commandQueue')].did = Head(repeatTimers).did
           /\ \A i \in 1..Len(commandQueue) :
                commandQueue[i].id < commandQueue'[Len(commandQueue')].id
      /\ \A k \in (Len(dispatched) + 1)..Len(dispatched') :
           \A i \in 1..Len(commandQueue') :
             commandQueue'[i].id < dispatched'[k] => commandQueue'[i].status # "queued"
      /\ ExampleAccepted' => IsPrefix(DispatchedCommands', ExampleOrder)
    ]_vars

\* The example has run to its end, with "b" sent by another participant
\* than "a x3".
C12_Witness ==
  /\ ExampleAccepted
  /\ DispatchedCommands = ExampleOrder
  /\ ItemWithId(commandQueue, 2).did # ItemWithId(commandQueue, 3).did

\* The sum of a sequence of natural numbers.
SumSeq(ns) == Cardinality(UNION { {i} \X (1..ns[i]) : i \in 1..Len(ns) })

\* The occurrences owed to a participant for a command: the repeat counts of
\* the participant's accepted messages that normalize to it.
Owed(did, command) ==
  SumSeq([i \in 1..Len(chatMessages) |->
            IF /\ chatMessages[i].did = did
               /\ chatMessages[i].isCommand
               /\ parseCommand(chatMessages[i].text, TRUE).normalized = command
            THEN parseCommand(chatMessages[i].text, TRUE).repeatCount
            ELSE 0])

\* The occurrences appended so far (none has left the queue).
Appended(did, command) ==
  Cardinality({ i \in 1..Len(commandQueue) :
                  commandQueue[i].did = did /\ commandQueue[i].command = command })

\* The occurrences the sleeping repeat loops have yet to append.
Outstanding(did, command) ==
  SumSeq([i \in 1..Len(repeatTimers) |->
            IF repeatTimers[i].did = did /\ repeatTimers[i].command = command
            THEN repeatTimers[i].left ELSE 0])

NormalizedTexts == { parseCommand(text, TRUE).normalized : text \in RepeatEnv.texts }

\* C13: accepting a command with repeat count N appends one item with its
\* normalized command and the sender's id at once and leaves a repeat loop
\* with N - 1 occurrences to go (none for N = 1); each wake-up of a loop
\* appends one more and the loop ends with its last; so the items appended
\* and the occurrences still to come always add up to N per accepted
\* command, and to exactly N items once the loop has ended.
C13_RepeatCountItems ==
  /\ [](/\ \A did \in Dids, command \in NormalizedTexts :
             Appended(did, command) + Outstanding(did, command) = Owed(did, command)
        /\ \A i \in 1..Len(repeatTimers) : repeatTimers[i].left >= 1)
  /\ [][ /\ (last'.op = "ingest" /\ last'.accepted) =>
              \E text \in {last'.text}, allowed \in {last'.allowCommandSpam} :
                LET parsed == parseCommand(text, allowed)
                    item == commandQueue'[Len(commandQueue')]
                IN  /\ Len(commandQueue') = Len(commandQueue) + 1
                    /\ item.id = nItem + 1 /\ nItem' = nItem + 1
                    /\ item.command = parsed.normalized
                    /\ item.did = last'.did
                    /\ repeatTimers' =
                         IF parsed.repeatCount = 1 THEN repeatTimers
                         ELSE Append(repeatTimers,
                                     [command |-> parsed.normalized, did |-> last'.did,
                                      left |-> parsed.repeatCount - 1])
         /\ last'.op = "repeat" =>
              /\ nItem' = nItem + 1
              /\ Len(commandQueue') = Len(commandQueue) + 1
              /\ \E lefts \in {[i \in 1..Len(repeatTimers') |-> repeatTimers'[i].left]} :
                   SumSeq(lefts)
                     = SumSeq([i \in 1..Len(repeatTimers) |-> repeatTimers[i].left]) - 1
       ]_vars

\* One "a x3" and one "b" were accepted and every repeat loop has ended:
\* three items carry "a" and the sender of "a x3", one carries "b".
C13_Witness ==
  /\ repeatTimers = <<>>
  /\ Len(chatMessages) = 2
  /\ chatMessages[1].text = TextAx3 /\ chatMessages[1].isCommand
  /\ chatMessages[2].text = TextB /\ chatMessages[2].isCommand
  /\ Appended(chatMessages[1].did, <<"a">>) = 3
  /\ Appended(chatMessages[2].did, TextB) = 1
  /\ Len(commandQueue) = 4

\* The button vocabulary: four directions, two action buttons, start, select
\* and two shoulder buttons.
Vocabulary ==
  { <<"u", "p">>, <<"d", "o", "w", "n">>, <<"l", "e", "f", "t">>,
    <<"r", "i", "g", "h", "t">>, <<"a">>, <<"b">>,
    <<"s", "t", "a", "r", "t">>, <<"s", "e", "l", "e", "c", "t">>,
    <<"l">>, <<"r">> }

\* The parts of a text between its "+" characters, in order.
PlusPositions(s) == { i \in 1..Len(s) : s[i] = "+" }
PartStarts(s) == {1} \cup { i + 1 : i \in PlusPositions(s) }
PartStart(s, k) ==
  CHOOSE i \in PartStarts(s) : Cardinality({ j \in PartStarts(s) : j < i }) = k - 1
PartEnd(s, from) ==
  IF \E i \in PlusPositions(s) : i >= from
  THEN (CHOOSE i \in PlusPositions(s) :
          i >= from /\ \A j \in PlusPositions(s) : j >= from => i <= j) - 1
  ELSE Len(s)
Parts(s) ==
  [k \in 1..Cardinality(PartStarts(s)) |->
     SubSeq(s, PartStart(s, k), PartEnd(s, PartStart(s, k)))]

Trimmed(parts) == [k \in 1..Len(parts) |-> Trim(parts[k])]

EndsWithHold(s) == s # <<>> /\ s[Len(s)] = "-"

\* The text trimmed and lowercased, without its repeat suffix.
WithoutRepeat(text) ==
  IF IsRepeatForm(text) THEN SpamMatchBase(normalizeCommand(text))
  ELSE normalizeCommand(text)

\* ... and without its hold suffix.
Core(text) ==
  LET base == WithoutRepeat(text) IN
  IF EndsWithHold(base) THEN SubSeq(base, 1, Len(base) - 1) ELSE base

RepeatNumber(text) == ParseInt(SpamMatchRepeat(normalizeCommand(text)))

\* The repeat suffix, if there is one, is allowed and its count is in range.
RepeatPasses(text, allowed) ==
  IsRepeatForm(text) => (allowed /\ RepeatNumber(text) \in 2..100)

\* What the parser returned for the record just ingested.
LastParsed == parseCommand(last.text, last.allowCommandSpam)

\* C14 as stated: the parts themselves must be members of the vocabulary and
\* are the buttons.
C14_Original ==
  last.op = "ingest" =>
    \A r \in {LastParsed}, parts \in {Parts(Core(last.text))} :
      /\ r.ok
           <=> /\ RepeatPasses(last.text, last.allowCommandSpam)
               /\ Len(parts) \in {1, 2}
               /\ \A k \in 1..Len(parts) : parts[k] \in Vocabulary
      /\ r.ok => r.buttons = parts

\* C14: with the text trimmed and lowercased and its repeat suffix (if
\* allowed and in range) and hold suffix removed, the parser accepts exactly
\* when the rest splits on "+" into 1 or 2 parts that, each trimmed of
\* surrounding whitespace, are members of the vocabulary; the buttons are
\* those trimmed parts in order; 3 or more parts are rejected.
C14_PartsDecide ==
  last.op = "ingest" =>
    \A r \in {LastParsed}, parts \in {Parts(Trim(Core(last.text)))} :
      /\ r.ok
           <=> /\ RepeatPasses(last.text, last.allowCommandSpam)
               /\ Len(parts) \in {1, 2}
               /\ \A k \in 1..Len(parts) : Trim(parts[k]) \in Vocabulary
      /\ r.ok =>
           /\ r.buttons = Trimmed(parts)
           /\ Len(r.buttons) \in {1, 2}
           /\ \A k \in 1..Len(r.buttons) : r.buttons[k] \in Vocabulary
      /\ Len(parts) >= 3 => ~r.ok
      /\ last.accepted = r.ok

\* A two-button text with a hold suffix was accepted whose parts carry
\* whitespace that the buttons do not.
C14_Witness ==
  /\ last.op = "ingest"
  /\ last.accepted
  /\ EndsWithHold(WithoutRepeat(last.text))
  /\ Len(LastParsed.buttons) = 2
  /\ LastParsed.buttons # Parts(Core(last.text))

\* The repeat-suffix form read from the end of a trimmed, lowercased text:
\* digits up to the end, an "x" before them, whitespace before the "x", and
\* a base before the whitespace.
DigitsFrom(s) ==
  CHOOSE j \in 1..(Len(s) + 1) :
    /\ \A k \in j..Len(s) : IsDigit(s[k])
    /\ j > 1 => ~IsDigit(s[j - 1])
SpaceFrom(s, to) ==
  CHOOSE j \in 1..(to + 1) :
    /\ \A k \in j..to : s[k] \in Whitespace
    /\ j > 1 => s[j - 1] \notin Whitespace
HasSuffixForm(s) ==
  LET digits == DigitsFrom(s) IN
  /\ digits <= Len(s)
  /\ digits >= 4
  /\ s[digits - 1] = "x"
  /\ SpaceFrom(s, digits - 2) <= digits - 2
  /\ SpaceFrom(s, digits - 2) >= 2
  /\ \A k \in 1..(SpaceFrom(s, digits - 2) - 1) : s[k] \notin LineTerminators
SuffixBase(s) == SubSeq(s, 1, SpaceFrom(s, DigitsFrom(s) - 2) - 1)
SuffixCount(s) == ParseInt(SubSeq(s, DigitsFrom(s), Len(s)))

\* C15: a text of the form "<base> xN" is accepted exactly when repeats are
\* allowed, N is in [2, 100] and the base parses with repeats disallowed; the
\* result is then the base's buttons, duration and normalized form with
\* repeatCount N.  The result of a text without a repeat suffix has
\* repeatCount 1.
C15_RepeatSuffix ==
  last.op = "ingest" =>
    \A r \in {LastParsed}, s \in {normalizeCommand(last.text)} :
      IF HasSuffixForm(s)
      THEN \A base \in {parseCommand(SuffixBase(s), FALSE)} :
             /\ r.ok
                  <=> /\ last.allowCommandSpam
                      /\ SuffixCount(s) \in 2..100
                      /\ base.ok
             /\ r.ok =>
                  /\ r.buttons = base.buttons
                  /\ r.durationMs = base.durationMs
                  /\ r.normalized = base.normalized
                  /\ r.repeatCount = SuffixCount(s)
      ELSE r.ok => r.repeatCount = 1

\* A two-button text with a hold suffix and the largest repeat count was
\* accepted.
C15_Witness ==
  /\ last.op = "ingest"
  /\ last.accepted
  /\ HasSuffixForm(normalizeCommand(last.text))
  /\ LastParsed.repeatCount = 100
  /\ Len(LastParsed.buttons) = 2
  /\ LastParsed.durationMs = LONG_KEYPRESS_DURATION_MS

\* The buttons joined by "+", written out for one and for two buttons.
PlusJoined(buttons) ==
  IF Len(buttons) = 1 THEN buttons[1] ELSE buttons[1] \o <<"+">> \o buttons[2]

\* The item the record just ingested put in the queue.
NewestItem == commandQueue[Len(commandQueue)]

\* C16 as stated: the hold suffix is looked for at the end of the trimmed text.
C16_Original ==
  (last.op = "ingest" /\ last.accepted) =>
    \A r \in {LastParsed}, hold \in {EndsWithHold(Trim(last.text))} :
      /\ r.durationMs = LONG_KEYPRESS_DURATION_MS <=> hold
      /\ r.durationMs = KEYPRESS_DURATION_MS <=> ~hold
      /\ r.normalized =
           PlusJoined(r.buttons) \o (IF hold THEN <<"-">> ELSE <<>>)
      /\ NewestItem.command = r.normalized

\* C16: the duration is the long one exactly when the text, trimmed and
\* without its repeat suffix, ends with "-", and the short one otherwise;
\* normalized is the buttons joined by "+", followed by "-" exactly in that
\* case; and normalized is the command of the queue item appended for the
\* record.
C16_HoldAndNormalized ==
  (last.op = "ingest" /\ last.accepted) =>
    \A r \in {LastParsed}, hold \in {EndsWithHold(WithoutRepeat(last.text))} :
      /\ r.durationMs =
           (IF hold THEN LONG_KEYPRESS_DURATION_MS ELSE KEYPRESS_DURATION_MS)
      /\ LONG_KEYPRESS_DURATION_MS # KEYPRESS_DURATION_MS
      /\ r.normalized =
           PlusJoined(r.buttons) \o (IF hold THEN <<"-">> ELSE <<>>)
      /\ NewestItem.id = nItem
      /\ NewestItem.command = r.normalized

\* "b+right-"-like: two buttons held, written with capitals and whitespace,
\* stored in canonical form.
C16_Witness ==
  /\ last.op = "ingest"
  /\ last.accepted
  /\ Len(LastParsed.buttons) = 2
  /\ LastParsed.durationMs = LONG_KEYPRESS_DURATION_MS
  /\ NewestItem.command # Trim(last.text)
  /\ NewestItem.command[Len(NewestItem.command)] = "-"
  /\ ~IsRepeatForm(last.text)

\* A queue without the identity labels of its items.
Unlabelled(queue) ==
  [i \in 1..Len(queue) |->
     [id |-> queue[i].id, did |-> queue[i].did, command |-> queue[i].command,
      status |-> queue[i].status, createdAt |-> queue[i].createdAt]]

\* C17 as stated: the ingest of a rejected text leaves the command queue as
\* it was.
C17_Original ==
  [][ (last'.op = "ingest" /\ ~last'.accepted) => commandQueue' = commandQueue ]_vars

\* C17: the ingest of a record whose text the parser rejects appends no
\* item, schedules no repeat, changes no item's status (so none becomes
\* error), order or command, and leaves the consumer where it was; the only
\* change to the queue is to the identity labels of the sender's items.
C17_RejectedNeverQueued ==
  [][ (last'.op = "ingest" /\ ~last'.accepted) =>
        /\ Unlabelled(commandQueue') = Unlabelled(commandQueue)
        /\ \A i \in 1..Len(commandQueue) :
             commandQueue'[i] # commandQueue[i] => commandQueue[i].did = last'.did
        /\ nItem' = nItem
        /\ repeatTimers' = repeatTimers
        /\ UNCHANGED <<pc, next, processingQueue, activeCommandId, dispatched>>
    ]_vars

\* A malformed text has just been ingested while one item was with the
\* executor, another waited and a repeat loop slept.
C17_Witness ==
  /\ last.op = "ingest"
  /\ ~last.accepted
  /\ last.text = Malformed
  /\ pc = "dispatch"
  /\ \E i \in 1..Len(commandQueue) : commandQueue[i].status = "queued"
  /\ repeatTimers # <<>>
  /\ \E i \in 1..Len(commandQueue) : commandQueue[i].handle # Undefined

\* The executor has just failed while some item waited in the queue.
FailedAhead ==
  /\ last.op = "settle"
  /\ ~last.accepted
  /\ QueuedIndexes(commandQueue) # {}

\* C18: when the executor call fails (or times out) for an item, the item is
\* marked error, the consumer goes on to its delay with the loop still
\* running, and the executor is never invoked for an error item; after the
\* delay the oldest queued item is handed to the executor; an item stops
\* being queued only by being handed to the executor; and after a failure
\* with items waiting, a state is reached in which none of them is waiting
\* any more.
C18_FailureDoesNotStop ==
  /\ [][ /\ (last'.op = "settle" /\ ~last'.accepted) =>
              /\ \E i \in 1..Len(commandQueue') :
                   commandQueue'[i].id = next /\ commandQueue'[i].status = "error"
              /\ pc' = "sleep"
              /\ processingQueue'
              /\ dispatched' = dispatched
         /\ \A k \in (Len(dispatched) + 1)..Len(dispatched'),
               i \in 1..Len(commandQueue) :
              commandQueue[i].id = dispatched'[k] => commandQueue[i].status = "queued"
         /\ (last'.op = "delay" /\ QueuedIndexes(commandQueue) # {}) =>
              \E i \in QueuedIndexes(commandQueue) :
                /\ \A k \in QueuedIndexes(commandQueue) : i <= k
                /\ dispatched' = Append(dispatched, commandQueue[i].id)
         /\ \A i \in QueuedIndexes(commandQueue) :
              \E j \in 1..Len(commandQueue') :
                /\ commandQueue'[j].id = commandQueue[i].id
                /\ \/ commandQueue'[j].status = "queued"
                   \/ /\ commandQueue'[j].status = "active"
                      /\ dispatched' = Append(dispatched, commandQueue[i].id)
     ]_vars
  /\ FailedAhead ~> (QueuedIndexes(commandQueue) = {})

\* After a failure, an item that waited behind the failed one is with the
\* executor.
C18_Witness ==
  /\ pc = "dispatch"
  /\ \E i, j \in 1..Len(commandQueue) :
       /\ i < j
       /\ commandQueue[i].status = "error"
       /\ commandQueue[i].id \in Range(dispatched)
       /\ commandQueue[j].status = "active"
       /\ commandQueue[j].id = next
  /\ \E k \in 1..Len(commandQueue) : commandQueue[k].status = "queued"

\* C19: in every broadcast each subscribed listener either is sent the
\* snapshot or fails; a listener that fails is not in the subscriber set
\* afterwards and every other subscribed listener is sent the snapshot of
\* that broadcast and stays subscribed; and the handler that broadcast goes
\* on: an accepted command is still appended, a settled executor call still
\* marks its item and moves the consumer to its delay.
C19_FailingListenerRemoved ==
  [][ last'.op \notin {"subscribe", "abort", "cancel"} =>
        /\ \A k \in 1..Len(pushed') :
             /\ pushed'[k].to \cap pushed'[k].failed = {}
             /\ pushed'[k].failed \cap overlayClients' = {}
             /\ pushed'[k].to = overlayClients \ cancelled
             /\ pushed'[k].to = overlayClients'
             /\ k = 1 => pushed'[k].to \cup pushed'[k].failed = overlayClients
             /\ k > 1 => pushed'[k].failed = {}
        /\ (last'.op = "ingest" /\ last'.accepted) =>
             /\ nItem' = nItem + 1
             /\ \E i \in 1..Len(commandQueue') : commandQueue'[i].id = nItem'
        /\ last'.op = "settle" =>
             /\ pc' = "sleep"
             /\ \E i \in 1..Len(commandQueue') :
                  /\ commandQueue'[i].id = next
                  /\ commandQueue'[i].status \in {"done", "error"}
    ]_vars

\* A broadcast of the consumer failed for one listener and reached the other.
C19_Witness ==
  /\ last.op = "settle"
  /\ pc = "sleep"
  /\ pushed # <<>>
  /\ pushed[1].failed = {"c1"}
  /\ pushed[1].to = {"c2"}
  /\ overlayClients = {"c2"}

\* C20: a consumer loop is running exactly when processingQueue is set; a
\* wake (an enqueue of an accepted command or of a scheduled repeat) that
\* comes while it is set, at the executor call or at the delay, starts
\* nothing: the loop's position, its item, the active id, the executor calls
\* made and the status of every item already in the queue are as before; and
\* the executor is never invoked while a call is outstanding.
C20_WakeIsNoOpWhileRunning ==
  /\ [](processingQueue <=> pc \in {"dispatch", "sleep"})
  /\ [][ /\ (processingQueue /\ last'.op \in {"ingest", "repeat"}) =>
              /\ UNCHANGED <<pc, next, activeCommandId, dispatched, processingQueue>>
              /\ \A i \in 1..Len(commandQueue) :
                   \E j \in 1..Len(commandQueue') :
                     /\ commandQueue'[j].id = commandQueue[i].id
                     /\ commandQueue'[j].status = commandQueue[i].status
         /\ dispatched' # dispatched => pc # "dispatch"
     ]_vars

\* A scheduled repeat was enqueued during the delay between two commands:
\* the consumer is still at its delay and the new item waits at the tail.
C20_Witness ==
  /\ last.op = "repeat"
  /\ pc = "sleep"
  /\ processingQueue
  /\ activeCommandId = NoId
  /\ Len(commandQueue) > 0
  /\ commandQueue[Len(commandQueue)].status = "queued"
  /\ commandQueue[Len(commandQueue)].id = nItem

\* Whether every stored chat message and queue item of the participant shows
\* the identity: its label, handle and avatar.
ShowsIdentity(chat, queue, identity) ==
  /\ \A i \in 1..Len(chat) :
       chat[i].did = identity.did =>
         /\ chat[i].user = userLabelForIdentity(identity, identity.did)
         /\ chat[i].handle = identity.handle
         /\ chat[i].avatarUrl = identity.avatarUrl
  /\ \A i \in 1..Len(queue) :
       queue[i].did = identity.did =>
         /\ queue[i].user = queueLabelForIdentity(identity, identity.did)
         /\ queue[i].handle = identity.handle
         /\ queue[i].avatarUrl = identity.avatarUrl

\* C21: a resolve for a participant whose cache entry has not expired starts
\* no external call and adds no in-flight marker, and afterwards every
\* stored message and item of the participant shows the cached identity.
C21_HitStartsNoCall ==
  [][ \A did \in Dids :
        ( /\ last'.op = "ingest" /\ last'.did = did
          /\ CacheValid(identityCache', did, now') )
        => /\ started' = started
           /\ inflight' = inflight
           /\ pendingIdentityLookups' = pendingIdentityLookups
           /\ ShowsIdentity(chatMessages', commandQueue', identityCache'[did].identity)
    ]_vars

\* A participant whose identity was resolved and cached sent a second
\* record: both messages show the resolved handle and one call was made.
C21_Witness ==
  \E did \in Dids :
    /\ last.op = "ingest" /\ last.did = did
    /\ CacheValid(identityCache, did, now)
    /\ identityCache[did].identity.handle = LookupFound.handle
    /\ MessagesOf(did) = 2
    /\ started[did] = 1 /\ inflight[did] = 0
    /\ did \notin pendingIdentityLookups
    /\ \A i \in 1..Len(chatMessages) :
         chatMessages[i].did = did => chatMessages[i].handle = LookupFound.handle

\* The cache slot written at a given time for an identity.
SlotFor(identity, time) ==
  [identity |-> identity, expiresAt |-> time + IDENTITY_CACHE_TTL_MS]

HintOf(did) ==
  [did |-> did, handle |-> Hint.handle, displayName |-> Hint.user,
   avatarUrl |-> Hint.avatarUrl]

FoundFor(did) ==
  [did |-> did, handle |-> LookupFound.handle,
   displayName |-> LookupFound.displayName, avatarUrl |-> LookupFound.avatarUrl]

\* The ingest of a record with identity fields leaves the hint in the
\* participant's cache slot, written at that moment, and cancels nothing: a
\* resolution in flight for the participant stays in flight with its marker;
\* and whenever an external resolution settles with an identity, that
\* identity is in the slot afterwards, whatever the slot held.
HintCachedAndOverwritten ==
  \A did \in Dids :
    /\ (last'.op = "ingest" /\ last'.did = did /\ last'.kind = "hint") =>
         /\ identityCache'[did] = SlotFor(HintOf(did), now')
         /\ inflight'[did] >= inflight[did]
         /\ did \in pendingIdentityLookups => did \in pendingIdentityLookups'
    /\ (last'.op = "lookup" /\ last'.did = did /\ last'.kind = "found") =>
         identityCache'[did] = SlotFor(FoundFor(did), now')

\* C22: a record's identity hint is cached at once and is overwritten by the
\* result of an external resolution, and the hint does not block that
\* resolution: once the record is ingested (its hint cached, the resolve for
\* its participant made) an external resolution for the participant is
\* running.
C22_HintDoesNotBlock ==
  [][ /\ HintCachedAndOverwritten
      /\ \A did \in Dids :
           (last'.op = "ingest" /\ last'.did = did /\ last'.kind = "hint")
             => inflight'[did] >= 1
    ]_vars

\* A participant's record with identity fields has been ingested: the hint
\* is cached, and no external resolution was started for the participant.
C22_HintBlocks ==
  \E did \in Dids :
    /\ last.op = "ingest" /\ last.did = did /\ last.kind = "hint"
    /\ identityCache[did] = SlotFor(HintOf(did), now)
    /\ inflight[did] = 0
    /\ started[did] = 0
    /\ did \notin pendingIdentityLookups

\* The identities applied in the checks: a record's hint and a resolved
\* identity, for each participant.
AppliedIdentities == { HintOf(did) : did \in Dids } \cup { FoundFor(did) : did \in Dids }

\* Whether some display field of some entry of the identity's participant
\* differs from what the identity gives.
DisplayDiffers(chat, queue, identity) == ~ShowsIdentity(chat, queue, identity)

\* C23: applied to the stored entries of any reachable state, an identity
\* is followed by exactly one broadcast when some display field of some
\* entry of its participant differed from it, and by none otherwise; applied
\* a second time right after, it changes nothing and broadcasts nothing.
C23_BroadcastIffChanged ==
  \A identity \in AppliedIdentities :
    \A once \in {applyIdentityToOverlay(Begin(Cur), identity)} :
      \A twice \in {applyIdentityToOverlay(Begin(once), identity)} :
        /\ Len(once.pushed) = IF DisplayDiffers(chatMessages, commandQueue, identity)
                              THEN 1 ELSE 0
        /\ (once.chatMessages # chatMessages \/ once.commandQueue # commandQueue)
             <=> DisplayDiffers(chatMessages, commandQueue, identity)
        /\ ShowsIdentity(once.chatMessages, once.commandQueue, identity)
        /\ twice.chatMessages = once.chatMessages
        /\ twice.commandQueue = once.commandQueue
        /\ twice.pushed = <<>>

\* A resolution has just settled with an identity and patched a stored
\* message and a stored item: one snapshot was broadcast, and applying the
\* identity again would broadcast nothing.
C23_Witness ==
  \E did \in Dids :
    /\ last.op = "lookup" /\ last.did = did /\ last.kind = "found"
    /\ Len(pushed) = 1
    /\ \E i \in 1..Len(pushed[1].data.chat) :
         pushed[1].data.chat[i].handle = LookupFound.handle
    /\ \E i \in 1..Len(commandQueue) :
         commandQueue[i].did = did /\ commandQueue[i].handle = LookupFound.handle
    /\ applyIdentityToOverlay(Begin(Cur), FoundFor(did)).pushed = <<>>
    /\ applyIdentityToOverlay(Begin(Cur), HintOf(did)).pushed # <<>>

Settled(queue) == \A i \in 1..Len(queue) : queue[i].status \in {"done", "error"}

\* C24: with every executor call settling and every delay ending, whenever
\* some stored item is queued or active a state follows in which every
\* stored item is done or error and the consumer has stopped; done and error
\* are kept and, below the capacity, no item leaves the queue, so that state
\* holds each of those items as done or error.  The consumer that finds no
\* queued item after its delay stops, and a stopped consumer has no queued
\* or active item, no active marker and its running flag reset.
C24_QueueDrains ==
  /\ [](pc = "idle" =>
          /\ QueuedIndexes(commandQueue) = {}
          /\ ActiveCount(commandQueue) = 0
          /\ activeCommandId = NoId
          /\ ~processingQueue)
  /\ [][ /\ (last'.op = "delay" /\ QueuedIndexes(commandQueue) = {}) =>
              /\ pc' = "idle"
              /\ activeCommandId' = NoId
              /\ ~processingQueue'
         /\ Len(commandQueue') >= Len(commandQueue)
         /\ \A i \in 1..Len(commandQueue) :
              /\ commandQueue'[i].id = commandQueue[i].id
              /\ commandQueue[i].status \in {"done", "error"} =>
                   commandQueue'[i].status = commandQueue[i].status
     ]_vars
  /\ ~Settled(commandQueue) ~> (Settled(commandQueue) /\ pc = "idle")

\* The consumer has stopped after its delay with a done and an error item
\* stored and nothing waiting.
C24_Witness ==
  /\ last.op = "delay"
  /\ pc = "idle"
  /\ ~processingQueue
  /\ activeCommandId = NoId
  /\ Len(commandQueue) >= 3
  /\ Settled(commandQueue)
  /\ \E i, j \in 1..Len(commandQueue) :
       commandQueue[i].status = "done" /\ commandQueue[j].status = "error"

\* The room has reached the threshold while a repeat loop still has
\* occurrences to enqueue.
ClosedMidSequence ==
  /\ repeatTimers # <<>>
  /\ Cardinality(WindowDids(now)) >= MIN_UNIQUE_CHATTERS_FOR_NO_SPAM

\* The items the accepted messages call for: each accepted text its repeat
\* count.
ItemsCalledFor ==
  SumSeq([i \in 1..Len(chatMessages) |->
            IF chatMessages[i].isCommand
            THEN parseCommand(chatMessages[i].text, TRUE).repeatCount
            ELSE 0])

\* C25: the gate is consulted at the ingest only.  A repeat loop that wakes
\* enqueues its occurrence whatever the number of participants in the window
\* (the threshold reached included) and goes on counting down; once the
\* room has reached the threshold with occurrences pending, a state follows
\* in which no occurrence is pending, every accepted text has had all the
\* items it called for, and all of them have been executed.
C25_RepeatsOutliveGate ==
  /\ [][ last'.op = "repeat" =>
           /\ nItem' = nItem + 1
           /\ Len(commandQueue') = Len(commandQueue) + 1
           /\ commandQueue'[Len(commandQueue')].id = nItem'
           /\ commandQueue'[Len(commandQueue')].command = Head(repeatTimers).command
           /\ commandQueue'[Len(commandQueue')].did = Head(repeatTimers).did
           /\ Len(repeatTimers') =
                IF Head(repeatTimers).left > 1
                THEN Len(repeatTimers) ELSE Len(repeatTimers) - 1
     ]_vars
  /\ ClosedMidSequence ~>
       (/\ repeatTimers = <<>>
        /\ nItem = ItemsCalledFor
        /\ Len(dispatched) = nItem
        /\ \A i \in 1..Len(commandQueue) : commandQueue[i].status = "done")

\* With three participants in the window and the gate closed, a repeat loop
\* has just enqueued an occurrence of a command accepted before the room
\* filled, and has more to come.
C25_Witness ==
  /\ last.op = "repeat"
  /\ Cardinality(WindowDids(now)) >= MIN_UNIQUE_CHATTERS_FOR_NO_SPAM
  /\ ~GateOpen(Cardinality(WindowDids(now)))
  /\ repeatTimers # <<>>
  /\ commandQueue[Len(commandQueue)].did = last.did
  /\ commandQueue[Len(commandQueue)].command = <<"a">>
  /\ nItem >= 4

\* Whether the base of a repeat-suffix form has a repeat suffix itself.
IsNestedRepeat(s) == HasSuffixForm(s) /\ HasSuffixForm(SuffixBase(s))

\* C26: a text whose base has a repeat suffix itself is rejected, with
\* repeats allowed as well; the normalized form of an accepted text has no
\* repeat suffix; and the repeat count of an accepted text is 1 or the
\* number of its one suffix, never a product.
C26_NoNestedRepeat ==
  last.op = "ingest" =>
    \A r \in {LastParsed}, s \in {normalizeCommand(last.text)} :
      /\ IsNestedRepeat(s) => ~r.ok /\ ~last.accepted
      /\ r.ok =>
           /\ ~HasSuffixForm(r.normalized)
           /\ ~HasSuffixForm(NewestItem.command)
           /\ r.repeatCount \in 1..MAX_COMMAND_SPAM_REPEAT
           /\ r.repeatCount # 1 =>
                /\ HasSuffixForm(s)
                /\ ~HasSuffixForm(SuffixBase(s))
                /\ r.repeatCount = SuffixCount(s)

\* "a x2 x3" was sent with repeats allowed and rejected: nothing was queued.
C26_Witness ==
  /\ last.op = "ingest"
  /\ last.allowCommandSpam
  /\ last.text = TextAx2x3
  /\ IsNestedRepeat(normalizeCommand(last.text))
  /\ ~last.accepted
  /\ nIngest = 1
  /\ nItem = 0
  /\ repeatTimers = <<>>

\* A chat sequence without the display fields of its messages.
UnlabelledChat(chat) ==
  [i \in 1..Len(chat) |->
     [id |-> chat[i].id, did |-> chat[i].did, text |-> chat[i].text,
      isCommand |-> chat[i].isCommand, createdAt |-> chat[i].createdAt]]

\* What an identity patch may change between two states given as records:
\* display fields of the participant's entries, and the broadcast it makes.
PatchFrame(before, after, did) ==
  /\ UnlabelledChat(after.chatMessages) = UnlabelledChat(before.chatMessages)
  /\ Unlabelled(after.commandQueue) = Unlabelled(before.commandQueue)
  /\ \A i \in 1..Len(before.chatMessages) :
       before.chatMessages[i].did # did =>
         after.chatMessages[i] = before.chatMessages[i]
  /\ \A i \in 1..Len(before.commandQueue) :
       before.commandQueue[i].did # did =>
         after.commandQueue[i] = before.commandQueue[i]
  /\ after.activeCommandId = before.activeCommandId
  /\ after.processingQueue = before.processingQueue
  /\ after.pc = before.pc
  /\ after.next = before.next
  /\ after.dispatched = before.dispatched
  /\ after.repeatTimers = before.repeatTimers
  /\ after.nItem = before.nItem
  /\ after.nMsg = before.nMsg

\* C27: an identity patch for a participant, applied in any reachable state,
\* changes nothing but the label, handle and avatar of that participant's
\* stored messages and items: other participants' entries, every id, text,
\* command, status and creation time, the order and length of both
\* sequences, the active marker and the consumer's progress stay; and so it
\* is in the step in which a resolution settles with an identity.
C27_PatchFrame ==
  /\ [](\A identity \in AppliedIdentities :
          \A after \in {applyIdentityToOverlay(Begin(Cur), identity)} :
            PatchFrame(Cur, after, identity.did))
  /\ [][ (last'.op = "lookup" /\ last'.kind = "found") =>
           \A before \in {Cur}, after \in {Cur'} :
             /\ PatchFrame(before, after, after.last.did)
             /\ ShowsIdentity(after.chatMessages, after.commandQueue,
                              FoundFor(after.last.did))
     ]_vars

\* A resolution has just settled with an identity while an item was with
\* the executor: the participant's message and item show the identity, and
\* another participant's message and item are as they were.
C27_Witness ==
  \E did, other \in Dids :
    /\ did # other
    /\ last.op = "lookup" /\ last.did = did /\ last.kind = "found"
    /\ pc = "dispatch"
    /\ activeCommandId # NoId
    /\ \E i, j \in 1..Len(commandQueue) :
         /\ commandQueue[i].did = did
         /\ commandQueue[i].handle = LookupFound.handle
         /\ commandQueue[j].did = other
         /\ commandQueue[j].handle = Undefined
    /\ \E i, j \in 1..Len(chatMessages) :
         /\ chatMessages[i].did = did
         /\ chatMessages[i].handle = LookupFound.handle
         /\ chatMessages[j].did = other
         /\ chatMessages[j].handle = Undefined

\* C28: every step runs a handler up to its next suspension (or its end).
\* If the step computed snapshots, the last one holds the chat sequence, the
\* queue and the active marker as they are stored when the step ends; if it
\* computed none, the three are as they were before the step.
C28_SnapshotCurrentAtSuspension ==
  [][ IF pushed' # <<>>
      THEN /\ pushed'[Len(pushed')].data.chat = chatMessages'
           /\ pushed'[Len(pushed')].data.queue = commandQueue'
           /\ pushed'[Len(pushed')].data.activeCommandId = activeCommandId'
      ELSE /\ chatMessages' = chatMessages
           /\ commandQueue' = commandQueue
           /\ activeCommandId' = activeCommandId
    ]_vars

\* An ingest that found the consumer idle has broadcast three times: after
\* the chat message, after the append and after the item became active; the
\* first snapshot is out of date, the last one is the stored state.
C28_Witness ==
  /\ last.op = "ingest"
  /\ pc = "dispatch"
  /\ Len(pushed) = 3
  /\ pushed[1].data.queue # commandQueue
  /\ pushed[2].data.activeCommandId # activeCommandId
  /\ pushed[3].data.chat = chatMessages
  /\ pushed[3].data.queue = commandQueue
  /\ pushed[3].data.activeCommandId = activeCommandId
  /\ activeCommandId # NoId

\* C29: an entry is written with expiry 15 minutes after the write.  At the
\* ingest of a record without identity fields, an entry whose expiry is
\* after the current time is used: no call starts and the new item shows the
\* cached identity; an entry whose expiry is the current time or earlier is
\* not: the resolve starts a call unless one is in flight, and the new item
\* is built with the shortened participant id and no handle or avatar.
C29_ExpiryIsExclusive ==
  [][ \A did \in Dids :
        /\ identityCache'[did] # identityCache[did] =>
             identityCache'[did].expiresAt = now' + 15 * 60 * 1000
        /\ ( /\ last'.op = "ingest" /\ last'.did = did /\ last'.kind # "hint"
             /\ identityCache[did] # NoEntry ) =>
             \A item \in {commandQueue'[Len(commandQueue')]} :
               IF now < identityCache[did].expiresAt
               THEN /\ started' = started
                    /\ pendingIdentityLookups' = pendingIdentityLookups
                    /\ item.handle = identityCache[did].identity.handle
                    /\ item.avatarUrl = identityCache[did].identity.avatarUrl
                    /\ item.user = queueLabelForIdentity(identityCache[did].identity, did)
               ELSE /\ started'[did] = IF did \in pendingIdentityLookups
                                       THEN started[did] ELSE started[did] + 1
                    /\ did \in pendingIdentityLookups'
                    /\ item.handle = Undefined
                    /\ item.avatarUrl = Undefined
                    /\ item.user = shortenDid(did)
    ]_vars

\* A record arrived at the very millisecond the participant's entry
\* expired: a call was started and the item shows no identity, while the
\* item of the record that arrived a millisecond earlier does.
C29_Witness ==
  \E did \in Dids :
    /\ last.op = "ingest" /\ last.did = did /\ last.kind # "hint"
    /\ identityCache[did] # NoEntry
    /\ identityCache[did].expiresAt = now
    /\ inflight[did] = 1
    /\ Len(commandQueue) = 3
    /\ commandQueue[3].handle = Undefined
    /\ commandQueue[2].createdAt = now - 1
    /\ commandQueue[2].handle # Undefined

\* The items of a queue that have the id.
WithId(queue, id) == { i \in 1..Len(queue) : queue[i].id = id }

\* C30: in every snapshot pushed, an active marker that is not null is the
\* id of exactly one item of the snapshot's queue, and that item is active,
\* also when the queue overflows while an item is with the executor.
C30_ActiveMarkerInSnapshot ==
  \A k \in 1..Len(pushed) :
    \A data \in {pushed[k].data} :
      data.activeCommandId # NoId =>
        /\ Cardinality(WithId(data.queue, data.activeCommandId)) = 1
        /\ \A i \in WithId(data.queue, data.activeCommandId) :
             data.queue[i].status = "active"

\* The queue overflowed while an item was with the executor: a listener was
\* sent a snapshot of a full queue whose active marker names an item that is
\* no longer in it, and in which no item is active.
C30_ActiveItemEvicted ==
  /\ pc = "dispatch"
  /\ nItem > MAX_QUEUE_ITEMS
  /\ \E k \in 1..Len(pushed) :
       /\ pushed[k].to # {}
       /\ pushed[k].data.activeCommandId = next
       /\ pushed[k].data.activeCommandId # NoId
       /\ Len(pushed[k].data.queue) = MAX_QUEUE_ITEMS
       /\ WithId(pushed[k].data.queue, next) = {}
       /\ ActiveCount(pushed[k].data.queue) = 0

\* ------------------------------------------------------------------------
\* C31: no wake-up is lost.  Every state is a suspension point of the
\* program.  At each of them a queued item implies that the consumer loop is
\* running: its flag is set and it is suspended in the executor call or in
\* the delay between two commands.  The loop finds no queued item and resets
\* the flag in one step, so a state with the flag reset has no queued item.
C31_NoLostWakeup ==
  /\ QueuedIndexes(commandQueue) # {} => processingQueue
  /\ processingQueue <=> pc \in {"dispatch", "sleep"}

\* An occurrence of a repeated command was enqueued while the consumer was in
\* the delay after a failed command whose item is the only other one: the new
\* item waits as queued and the loop that will find it is still running.
C31_Witness ==
  /\ last.op = "repeat"
  /\ pc = "sleep"
  /\ processingQueue
  /\ Len(commandQueue) = 2
  /\ commandQueue[1].status = "error"
  /\ commandQueue[2].status = "queued"

\* ------------------------------------------------------------------------
\* C32: the normalized form parses to itself.  For a text that the ingest
\* accepted, with repeats allowed or disallowed, parsing the result's
\* normalized string with repeats disallowed succeeds and gives the same
\* buttons, duration and normalized string, with repeatCount 1.  Every
\* command stored in the queue or held by a sleeping repeat loop parses that
\* way, so an item is in error only after it was handed to the executor.
Reparsed(command) == parseCommand(command, FALSE)

C32_NormalizedReparses ==
  /\ (last.op = "ingest" /\ last.accepted) =>
       \A first \in {LastParsed} :
         \A again \in {Reparsed(first.normalized)} :
           /\ again.ok
           /\ again.buttons = first.buttons
           /\ again.durationMs = first.durationMs
           /\ again.normalized = first.normalized
           /\ again.repeatCount = 1
  /\ \A i \in 1..Len(commandQueue) :
       /\ Reparsed(commandQueue[i].command).ok
       /\ Reparsed(commandQueue[i].command).normalized = commandQueue[i].command
       /\ commandQueue[i].status = "error" => commandQueue[i].id \in Range(dispatched)
  /\ \A i \in 1..Len(repeatTimers) : Reparsed(repeatTimers[i].command).ok

\* The third participant's padded two-button hold was accepted with repeats
\* disallowed and stored in its normalized form, which differs from the text,
\* behind an item that the executor failed on and an occurrence of a repeated
\* hold that is still queued.
C32_Witness ==
  /\ last.op = "ingest"
  /\ last.accepted
  /\ ~last.allowCommandSpam
  /\ last.text = TextHoldPair
  /\ Len(commandQueue) >= 3
  /\ commandQueue[1].status = "error"
  /\ commandQueue[1].command = <<"a", "-">>
  /\ \E i \in 2..(Len(commandQueue) - 1) :
       commandQueue[i].status = "queued" /\ commandQueue[i].command = <<"a", "-">>
  /\ commandQueue[Len(commandQueue)].command = <<"u", "p", "+", "b", "-">>
  /\ LastParsed.normalized # normalizeCommand(last.text)

\* ------------------------------------------------------------------------
\* C33: each call of the socket executor settles exactly once.  In every
\* order of the socket's events, resolve and reject are called at most once
\* between them for a call, exactly once by the time its socket has closed,
\* and a pending call is settled in the end.  A call whose first deciding
\* event was a timeout, an error, a failed write or a close with an error is
\* rejected, and stays rejected when the close comes; a call whose first
\* deciding event was a clean close is fulfilled.  The item of the call is
\* active while the call is pending, done when it is fulfilled and in error
\* when it is rejected.
SettledOnce(call) ==
  /\ call.resolves + call.rejects <= 1
  /\ call.settled <=> call.resolves + call.rejects = 1
  /\ call.closed => call.settled
  /\ call.promise = (IF call.resolves = 1 THEN "fulfilled"
                     ELSE IF call.rejects = 1 THEN "rejected"
                     ELSE "pending")
  /\ call.first = "none" => call.promise = "pending"
  /\ call.first \in {"timeout", "error", "writeFailed", "closeError"} =>
       call.promise = "rejected"
  /\ call.first = "close" => call.promise = "fulfilled"

ItemFollows(call) ==
  \A i \in 1..Len(commandQueue) :
    commandQueue[i].id = call.item =>
      commandQueue[i].status = (CASE call.promise = "pending" -> "active"
                                  [] call.promise = "fulfilled" -> "done"
                                  [] call.promise = "rejected" -> "error")

SomePending == \E k \in 1..Len(sockets) : sockets[k].promise = "pending"

C33_SettlesExactlyOnce ==
  /\ [](\A k \in 1..Len(sockets) : SettledOnce(sockets[k]) /\ ItemFollows(sockets[k]))
  /\ SomePending ~> ~SomePending

\* A call timed out after its write had succeeded, was rejected, and its
\* socket has closed cleanly since: the call is still rejected, with one call
\* of reject and none of resolve, and its item is in error.
C33_Witness ==
  \E k \in 1..Len(sockets) :
    /\ sockets[k].first = "timeout"
    /\ sockets[k].ended
    /\ sockets[k].closed
    /\ last.op = "socket"
    /\ last.kind = "close"
    /\ sockets[k].promise = "rejected"
    /\ sockets[k].rejects = 1
    /\ sockets[k].resolves = 0
    /\ \E i \in 1..Len(commandQueue) :
         commandQueue[i].id = sockets[k].item /\ commandQueue[i].status = "error"

=============================================================================
